---- MODULE Spec2Model ----
(***************************************************************************)
(* Screenplay breakdown editor: the script parser (text -> tokens), the    *)
(* document converter (tokens <-> paragraphs), the raw serializer and the  *)
(* line-count / page-length metrics, modelled from the JavaScript sources. *)
(*                                                                         *)
(* A JavaScript string is a sequence of one-character strings; "\n" is the *)
(* newline character.  null and undefined are the one-element sequences    *)
(* Null and Undefined, which differ from every string, '' included.        *)
(***************************************************************************)
EXTENDS Integers, Sequences, FiniteSets, TLC

Null == <<"null">>
Undefined == <<"undefined">>

\* JavaScript truthiness of a string-or-null value
Truthy(v) == v # Null /\ v # Undefined /\ v # <<>>

(***************************************************************************)
(* Character classes of the regular expressions                           *)
(***************************************************************************)
UpperSeq == <<"A","B","C","D","E","F","G","H","I","J","K","L","M",
              "N","O","P","Q","R","S","T","U","V","W","X","Y","Z">>
LowerSeq == <<"a","b","c","d","e","f","g","h","i","j","k","l","m",
              "n","o","p","q","r","s","t","u","v","w","x","y","z">>
DigitSeq == <<"0","1","2","3","4","5","6","7","8","9">>

Upper == {UpperSeq[i] : i \in 1..26}
Lower == {LowerSeq[i] : i \in 1..26}
Digit == {DigitSeq[i] : i \in 1..10}
Letter == Upper \cup Lower
\* \w
WordCh == Letter \cup Digit \cup {"_"}
\* \s
Space == {" ", "\n", "\t"}
\* [\w\'\.\- ]  (entity names and types of an inline annotation)
NameCh == WordCh \cup {"'", ".", "-", " "}
\* [\w\'\.\-\, ]  (name list of a declarative annotation)
NameListCh == NameCh \cup {","}
\* [\w\'\. ]  (payload of a vfx annotation)
VfxCh == WordCh \cup {"'", ".", " "}
\* [0-9A-Z ._\-\']  (tail of an upper-case character cue)
CueTailCh == Upper \cup Digit \cup {" ", ".", "_", "-", "'"}
\* [\w ._\-\']  (an @name character cue)
AtCueCh == WordCh \cup {" ", ".", "_", "-", "'"}
\* [0-9A-Za-z ._\-\'']  (inside the parentheses of a cue extension)
CueParenCh == Letter \cup Digit \cup {" ", ".", "_", "-", "'"}

(***************************************************************************)
(* String primitives                                                       *)
(***************************************************************************)
ToUpperCh(c) ==
    IF c \in Lower THEN UpperSeq[CHOOSE i \in 1..26 : LowerSeq[i] = c] ELSE c

\* String.prototype.toUpperCase
ToUpperCase(s) == [i \in 1..Len(s) |-> ToUpperCh(s[i])]

\* s.slice(i-1): the suffix starting at the 1-based index i
From(s, i) == SubSeq(s, i, Len(s))

\* lit occurs in s at the 1-based index i
At(s, i, lit) ==
    /\ i >= 1
    /\ i + Len(lit) - 1 <= Len(s)
    /\ \A k \in 1..Len(lit) : s[i + k - 1] = lit[k]

\* the same, ignoring case (the /i flag)
AtCI(s, i, lit) ==
    /\ i >= 1
    /\ i + Len(lit) - 1 <= Len(s)
    /\ \A k \in 1..Len(lit) : ToUpperCh(s[i + k - 1]) = ToUpperCh(lit[k])

\* index just after the longest run of characters of class C that starts at i
\* (a greedy C* from position i)
RECURSIVE RunEnd(_, _, _)
RunEnd(s, i, C) ==
    IF i > Len(s) THEN i
    ELSE IF s[i] \notin C THEN i
    ELSE RunEnd(s, i + 1, C)

\* String.prototype.trimStart / trimEnd / trim
TrimStart(s) == CHOOSE r \in {From(v, RunEnd(v, 1, Space)) : v \in {s}} : TRUE

TrimEndIdx(s) ==
    IF \A k \in 1..Len(s) : s[k] \in Space THEN 0
    ELSE CHOOSE j \in 1..Len(s) :
            s[j] \notin Space /\ \A k \in (j + 1)..Len(s) : s[k] \in Space

TrimEnd(s) == CHOOSE r \in {SubSeq(v, 1, TrimEndIdx(v)) : v \in {s}} : TRUE

Trim(s) == TrimStart(TrimEnd(s))

\* String.prototype.padEnd(n) / padStart(n) with spaces
PadEnd(s, n) ==
    CHOOSE r \in {IF Len(v) >= n THEN v ELSE v \o [i \in 1..(n - Len(v)) |-> " "] : v \in {s}} : TRUE

PadStart(s, n) ==
    CHOOSE r \in {IF Len(v) >= n THEN v ELSE [i \in 1..(n - Len(v)) |-> " "] \o v : v \in {s}} : TRUE

\* ' '.repeat(n)
Spaces(n) == [i \in 1..n |-> " "]

\* Array.prototype.join(sep) of a sequence of strings
RECURSIVE JoinTo(_, _, _)
JoinTo(parts, sep, k) ==
    IF k = 0 THEN <<>>
    ELSE IF k = 1 THEN parts[1]
    ELSE CHOOSE r \in {head \o sep \o parts[k] : head \in {JoinTo(parts, sep, k - 1)}} : TRUE

Join(parts, sep) == CHOOSE r \in {JoinTo(p, sep, Len(p)) : p \in {parts}} : TRUE

\* String.prototype.split(c) on a one-character separator
RECURSIVE SplitFrom(_, _, _)
SplitFrom(s, c, i) ==
    IF \A k \in i..Len(s) : s[k] # c THEN <<SubSeq(s, i, Len(s))>>
    ELSE CHOOSE r \in {<<SubSeq(s, i, j - 1)>> \o SplitFrom(s, c, j + 1) :
                         j \in {k \in i..Len(s) : s[k] = c /\ \A m \in i..(k - 1) : s[m] # c}} : TRUE

Split(s, c) == CHOOSE r \in {SplitFrom(t, c, 1) : t \in {s}} : TRUE

\* number of occurrences of the character c: (s.match(/c/g) || []).length
CountCh(s, c) == Cardinality({k \in 1..Len(s) : s[k] = c})

\* decimal digits of a natural number: Number.prototype.toString
RECURSIVE NatToStr(_)
NatToStr(n) ==
    IF n < 10 THEN <<DigitSeq[n + 1]>>
    ELSE NatToStr(n \div 10) \o <<DigitSeq[(n % 10) + 1]>>

DigitVal(c) == (CHOOSE i \in 1..10 : DigitSeq[i] = c) - 1

RECURSIVE DigitsToNat(_)
DigitsToNat(s) ==
    IF s = <<>> THEN 0
    ELSE 10 * DigitsToNat(SubSeq(s, 1, Len(s) - 1)) + DigitVal(s[Len(s)])

(***************************************************************************)
(* Pattern library (regex.js).  Each matcher is the hand translation of   *)
(* one regular expression; it returns [ok |-> FALSE] or the capture       *)
(* groups.  Quantifiers are greedy unless marked lazy in the source; a    *)
(* greedy run of a class whose successor lies outside the class has a     *)
(* single way to match, which is what RunEnd computes.                    *)
(***************************************************************************)
NoMatch == [ok |-> FALSE]

\* #?((?:[0-9]+[a-z]*)|(?:[a-z]+[0-9]+))#?  with /i, anchored at index i
NumAt(s, i) ==
    LET p  == IF At(s, i, <<"#">>) THEN i + 1 ELSE i
        d1 == RunEnd(s, p, Digit)
        l1 == RunEnd(s, d1, Letter)
        l2 == RunEnd(s, p, Letter)
        d2 == RunEnd(s, l2, Digit)
        e  == IF d1 > p THEN l1 ELSE d2
        q  == IF At(s, e, <<"#">>) THEN e + 1 ELSE e
    IN  IF p > Len(s) + 1 THEN NoMatch
        ELSE IF d1 > p \/ (l2 > p /\ d2 > l2)
             THEN [ok |-> TRUE, num |-> SubSeq(s, p, e - 1), end |-> q]
             ELSE NoMatch

\* the optional trailing scene number followed by $, from index i
NumToEnd(s, i) ==
    LET m == NumAt(s, i) IN m.ok /\ m.end = Len(s) + 1

\* (int|ext|est|i\/e)[. ] with /i at index k: the index after it, or 0
SceneKeywordEnd(s, k) ==
    IF /\ \E kw \in {<<"i","n","t">>, <<"e","x","t">>, <<"e","s","t">>, <<"i","/","e">>} :
              AtCI(s, k, kw)
       /\ Len(s) >= k + 3
       /\ s[k + 3] \in {".", " "}
    THEN k + 4 ELSE 0

\* .+? followed by (?:#?(num)#?)?$ : the lazy tail that starts at index t
\* ends at the first index e >= t whose rest is empty or a complete scene
\* number (the shortest tail wins).
RECURSIVE LazyTailEnd(_, _)
LazyTailEnd(s, e) ==
    IF e >= Len(s) THEN Len(s)
    ELSE IF NumToEnd(s, e + 1) THEN e
    ELSE LazyTailEnd(s, e + 1)

\* the body of 'scene-heading' at index p (after the optional leading number)
SceneBodyAt(s, p, g1) ==
    LET st == RunEnd(s, p, {"*"})
        us == IF At(s, st, <<"_">>) THEN st + 1 ELSE st
        t  == IF st - p <= 3 THEN SceneKeywordEnd(s, us) ELSE 0
        b  == IF At(s, p, <<".">>) /\ ~At(s, p + 1, <<".">>) THEN p + 1 ELSE 0
    IN  IF t > 0 /\ t <= Len(s)
        THEN LET e == LazyTailEnd(s, t)
             IN  [ok |-> TRUE, g1 |-> g1, g2 |-> SubSeq(s, p, e), g3 |-> Undefined,
                  g4 |-> IF e = Len(s) THEN Undefined ELSE NumAt(s, e + 1).num]
        ELSE IF b > 0 /\ b <= Len(s)
        THEN LET e == LazyTailEnd(s, b)
             IN  [ok |-> TRUE, g1 |-> g1, g2 |-> Undefined, g3 |-> SubSeq(s, b, e),
                  g4 |-> IF e = Len(s) THEN Undefined ELSE NumAt(s, e + 1).num]
        ELSE NoMatch

\* regex['scene-heading']
RegexSceneHeading(s) ==
    LET n  == NumAt(s, 1)
        w  == IF n.ok THEN RunEnd(s, n.end, Space) ELSE 0
        m1 == IF n.ok /\ w > n.end THEN SceneBodyAt(s, w, n.num) ELSE NoMatch
    IN  IF m1.ok THEN m1 ELSE SceneBodyAt(s, 1, Undefined)

\* regex['transition']: /^((?:FADE (?:TO BLACK|OUT)|CUT TO BLACK)\.|.+ TO\:)|^(?:< *)(.+)/
RegexTransition(s) ==
    \/ At(s, 1, <<"F","A","D","E"," ","T","O"," ","B","L","A","C","K",".">>)
    \/ At(s, 1, <<"F","A","D","E"," ","O","U","T",".">>)
    \/ At(s, 1, <<"C","U","T"," ","T","O"," ","B","L","A","C","K",".">>)
    \/ \E i \in 2..Len(s) : At(s, i, <<" ","T","O",":">>)
    \/ (At(s, 1, <<"<">>) /\ Len(s) >= 2)

\* regex['flashback']: /^(FLASHBACK|CURRENT\s+DAY|HOME\s+VIDEO)\s*/
RegexFlashback(s) ==
    \/ At(s, 1, <<"F","L","A","S","H","B","A","C","K">>)
    \/ /\ At(s, 1, <<"C","U","R","R","E","N","T">>)
       /\ RunEnd(s, 8, Space) > 8
       /\ At(s, RunEnd(s, 8, Space), <<"D","A","Y">>)
    \/ /\ At(s, 1, <<"H","O","M","E">>)
       /\ RunEnd(s, 5, Space) > 5
       /\ At(s, RunEnd(s, 5, Space), <<"V","I","D","E","O">>)

\* regex['page-break']: /^\={3,}\s*(?:#?([0-9]+[a-zA-Z]*)#?\.?\s*)?$/
RegexPageBreak(s) ==
    LET e  == RunEnd(s, 1, {"="})
        w  == RunEnd(s, e, Space)
        p  == IF At(s, w, <<"#">>) THEN w + 1 ELSE w
        d  == RunEnd(s, p, Digit)
        l  == RunEnd(s, d, Letter)
        h  == IF At(s, l, <<"#">>) THEN l + 1 ELSE l
        o  == IF At(s, h, <<".">>) THEN h + 1 ELSE h
    IN  /\ e >= 4
        /\ (w = Len(s) + 1 \/ (d > p /\ RunEnd(s, o, Space) = Len(s) + 1))

\* regex['page-number']: /^([0-9]+)\.?$/
RegexPageNumber(s) ==
    LET d == RunEnd(s, 1, Digit)
    IN  d > 1 /\ (d = Len(s) + 1 \/ (d = Len(s) /\ s[d] = "."))

\* regex['blank']: /^$/
RegexBlank(s) == s = <<>>

\* regex['action']: /^!(.+)$/
RegexAction(s) ==
    IF At(s, 1, <<"!">>) /\ Len(s) >= 2
    THEN [ok |-> TRUE, g1 |-> From(s, 2)] ELSE NoMatch

\* ((?:\([0-9A-Za-z ._\-\'']*\)\s*)*) from index p: the index after the last
\* complete parenthesised extension
RECURSIVE CueParensEnd(_, _)
CueParensEnd(s, p) ==
    LET e == RunEnd(s, p + 1, CueParenCh)
    IN  IF At(s, p, <<"(">>) /\ At(s, e, <<")">>)
        THEN CueParensEnd(s, RunEnd(s, e + 1, Space))
        ELSE p

\* regex['character']:
\* /^(?:([A-Z_]+[0-9A-Z ._\-\']*)|@([\w ._\-\']+))((?:\([0-9A-Za-z ._\-\'']*\)\s*)*)(\^?)$/
RegexCharacter(s) ==
    LET up == Len(s) >= 1 /\ s[1] \in (Upper \cup {"_"})
        at == Len(s) >= 2 /\ s[1] = "@" /\ s[2] \in AtCueCh
        e1 == IF up THEN RunEnd(s, 1, CueTailCh) ELSE RunEnd(s, 2, AtCueCh)
        e3 == CueParensEnd(s, e1)
        e4 == IF At(s, e3, <<"^">>) THEN e3 + 1 ELSE e3
    IN  IF (up \/ at) /\ e4 = Len(s) + 1
        THEN [ok |-> TRUE,
              g1 |-> IF up THEN SubSeq(s, 1, e1 - 1) ELSE Undefined,
              g2 |-> IF up THEN Undefined ELSE SubSeq(s, 2, e1 - 1),
              g3 |-> SubSeq(s, e1, e3 - 1),
              g4 |-> SubSeq(s, e3, e4 - 1)]
        ELSE NoMatch

\* regex['vfx-annotation'] anchored at index i:
\* /(?:\[{2}(?!\[+))\s*vfx\s*([\w\'\. ]*)(?:\]{2}(?!\[+))/
VfxAnnotationAt(s, i) ==
    LET a == RunEnd(s, i + 2, Space)
        b == RunEnd(s, a + 3, Space)
        c == RunEnd(s, b, VfxCh)
    IN  IF /\ At(s, i, <<"[","[">>)
           /\ ~At(s, i + 2, <<"[">>)
           /\ At(s, a, <<"v","f","x">>)
           /\ At(s, c, <<"]","]">>)
           /\ ~At(s, c + 2, <<"[">>)
        THEN [ok |-> TRUE, start |-> i, end |-> c + 2, g1 |-> SubSeq(s, b, c - 1)]
        ELSE NoMatch

\* the leftmost match at or after index i of a matcher anchored at an index
RECURSIVE FirstMatch(_, _, _)
FirstMatch(MatchAt(_, _), s, i) ==
    IF i > Len(s) THEN NoMatch
    ELSE LET m == MatchAt(s, i)
         IN  IF m.ok THEN m ELSE FirstMatch(MatchAt, s, i + 1)

\* line.match(regex['vfx-annotation'])
RegexVfxAnnotation(s) == FirstMatch(VfxAnnotationAt, s, 1)

\* regex['annotation'] anchored at index i:
\* /\*\*([\w\'\.\- ]+)\*\*\s*(?:\[{2}(?!\[+))\s*([\w\'\.\- ]+)\s*([\w\'\.\- ]*)(?:\]{2}(?!\[+))/g
\* Group 2 is greedy and takes the whole payload after the leading blanks
\* (the last blank when the payload is blank); group 3 is then empty.
AnnotationAt(s, i) ==
    LET e1 == RunEnd(s, i + 2, NameCh)
        w  == RunEnd(s, e1 + 2, Space)
        a  == RunEnd(s, w + 2, Space)
        e2 == RunEnd(s, w + 2, NameCh)
        b  == IF a < e2 THEN a ELSE e2 - 1
    IN  IF /\ At(s, i, <<"*","*">>)
           /\ e1 > i + 2
           /\ At(s, e1, <<"*","*">>)
           /\ At(s, w, <<"[","[">>)
           /\ ~At(s, w + 2, <<"[">>)
           /\ e2 > w + 2
           /\ At(s, e2, <<"]","]">>)
           /\ ~At(s, e2 + 2, <<"[">>)
        THEN [ok |-> TRUE, start |-> i, end |-> e2 + 2,
              g1 |-> SubSeq(s, i + 2, e1 - 1), g2 |-> SubSeq(s, b, e2 - 1)]
        ELSE NoMatch

\* regex['entity-annotation'] anchored at index i:
\* /(?<!\*\*)(?:\[{2}(?!\[\[+))\s*(char|prop|env|fx)\b\s*([\w\'\.\-\, ]*)(?:\]{2}(?!\[+))/g
EntityKeywords == {<<"c","h","a","r">>, <<"p","r","o","p">>, <<"e","n","v">>, <<"f","x">>}

EntityAnnotationAt(s, i) ==
    LET a  == RunEnd(s, i + 2, Space)
        kw == CHOOSE k \in EntityKeywords : At(s, a, k)
        b  == a + Len(kw)
        c  == RunEnd(s, b, Space)
        d  == RunEnd(s, c, NameListCh)
    IN  IF /\ At(s, i, <<"[","[">>)
           /\ ~At(s, i - 2, <<"*","*">>)
           /\ ~At(s, i + 2, <<"[","[">>)
           /\ \E k \in EntityKeywords : At(s, a, k)
           /\ (b > Len(s) \/ s[b] \notin WordCh)
           /\ At(s, d, <<"]","]">>)
           /\ ~At(s, d + 2, <<"[">>)
        THEN [ok |-> TRUE, start |-> i, end |-> d + 2, g1 |-> kw, g2 |-> SubSeq(s, c, d - 1)]
        ELSE NoMatch

\* [...s.matchAll(re)] for a matcher anchored at an index: the successive
\* leftmost matches, each search resuming where the previous match ended
RECURSIVE MatchAll(_, _, _)
MatchAll(MatchAt(_, _), s, from) ==
    LET m == FirstMatch(MatchAt, s, from)
    IN  IF m.ok THEN <<m>> \o MatchAll(MatchAt, s, m.end) ELSE <<>>

\* s.replace(re, ...) for a global re: every match ms[k] replaced by rep[k]
RECURSIVE ReplaceAll(_, _, _, _)
ReplaceAll(s, ms, rep, from) ==
    IF ms = <<>> THEN From(s, from)
    ELSE SubSeq(s, from, ms[1].start - 1) \o rep[1]
         \o ReplaceAll(s, Tail(ms), Tail(rep), ms[1].end)

\* text.replace(regex['annotation'], '$1')
StripAnnotation(s) ==
    CHOOSE r \in UNION {
      { ReplaceAll(v, ms, [k \in 1..Len(ms) |-> ms[k].g1], 1) :
          ms \in {MatchAll(AnnotationAt, v, 1)} } :
      v \in {s} } : TRUE

\* text.replace(regex['entity-annotation'], '')
StripEntityAnnotation(s) ==
    CHOOSE r \in UNION {
      { ReplaceAll(v, ms, [k \in 1..Len(ms) |-> <<>>], 1) :
          ms \in {MatchAll(EntityAnnotationAt, v, 1)} } :
      v \in {s} } : TRUE

(***************************************************************************)
(* Script parser (parser.js, parseScriptSync)                              *)
(***************************************************************************)
Abs(n) == IF n < 0 THEN 0 - n ELSE n

\* parseInt of a string; NaN is the value -1 (scene numbers carry no sign)
NaN == 0 - 1

ParseInt(s) ==
    LET t == TrimStart(s)
        d == RunEnd(t, 1, Digit)
    IN  IF d > 1 THEN DigitsToNat(SubSeq(t, 1, d - 1)) ELSE NaN

\* mutant of IncToString: the increment is lost
IncToStringNoIncrement(n) == IF n = NaN THEN <<"N","a","N">> ELSE NatToStr(n)

\* (n + 1).toString(), where n may be NaN
IncToString(n) == IF n = NaN THEN <<"N","a","N">> ELSE NatToStr(n + 1)

S_char == <<"c","h","a","r">>

\* The entity registry is a JavaScript object: a sequence of entries in
\* insertion order, one per key.
EntityIndex(ents, key) ==
    IF \E i \in 1..Len(ents) : ents[i].key = key
    THEN CHOOSE i \in 1..Len(ents) : ents[i].key = key
    ELSE 0

EntityKeys(ents) == {ents[i].key : i \in 1..Len(ents)}

\* mutant of SetEntity: the entry is created afresh on every call, as if
\* "entities[key] ||" were missing
SetEntityAfresh(ents, key, type, increment) ==
    LET i == EntityIndex(ents, key)
        e == [key |-> key, type |-> type, name |-> <<>>,
              count |-> IF increment THEN 1 ELSE 0]
    IN  IF i = 0 THEN Append(ents, e) ELSE [ents EXCEPT ![i] = e]

\* entities[key] = entities[key] || { type: '', name: '', count: 0 };
\* entities[key].type = type; if (increment) entities[key].count++;
SetEntity(ents, key, type, increment) ==
    LET i == EntityIndex(ents, key)
    IN  IF i = 0
        THEN Append(ents, [key |-> key, type |-> type, name |-> <<>>,
                           count |-> IF increment THEN 1 ELSE 0])
        ELSE [ents EXCEPT ![i] = [@ EXCEPT !.type = type,
                                           !.count = IF increment THEN @ + 1 ELSE @]]

\* mutant of processEntity: every call counts, as if increment were true
processEntityAlwaysCounts(ents, name, type, increment) ==
    SetEntity(ents, ToUpperCase(Trim(name)), type, TRUE)

\* processEntity(name, type, increment = false)
processEntity(ents, name, type, increment) ==
    SetEntity(ents, ToUpperCase(Trim(name)), type, increment)

\* match[2].split(',').map(name => name.trim()).filter(Boolean)
RECURSIVE NonEmpty(_)
NonEmpty(parts) ==
    IF parts = <<>> THEN <<>>
    ELSE IF Trim(parts[1]) = <<>> THEN NonEmpty(Tail(parts))
    ELSE <<Trim(parts[1])>> \o NonEmpty(Tail(parts))

\* the processEntity calls of one line: inline annotations (incrementing),
\* then the names of every declarative annotation whose list is not empty
RECURSIVE DeclaredNames(_)
DeclaredNames(ms) ==
    IF ms = <<>> THEN <<>>
    ELSE LET names == IF ms[1].g2 = <<>> THEN <<>> ELSE NonEmpty(Split(ms[1].g2, ","))
         IN  [k \in 1..Len(names) |-> [name |-> names[k], type |-> ms[1].g1, inc |-> FALSE]]
             \o DeclaredNames(Tail(ms))

RECURSIVE ApplyEntityCalls(_, _)
ApplyEntityCalls(ents, calls) ==
    IF calls = <<>> THEN ents
    ELSE ApplyEntityCalls(processEntity(ents, calls[1].name, calls[1].type, calls[1].inc),
                          Tail(calls))

\* What the loop body computes from the text of one input line alone
\* (the line is already trimEnd-ed by line 75): lines 83-124, and every
\* pattern test that lines 129-197 make on line, line.trim() and lineClean.
AnalyzeLine(raw) ==
    CHOOSE a \in UNION { UNION { UNION { UNION {
      { [vfx       |-> IF vm.ok THEN vm.g1 ELSE Null,
         line      |-> line,
         calls     |-> [k \in 1..Len(anns) |->
                           [name |-> anns[k].g1, type |-> anns[k].g2, inc |-> TRUE]]
                       \o DeclaredNames(decls),
         lineClean |-> lineClean,
         isBlank   |-> RegexBlank(lineClean),
         indent    |-> Len(line) - Len(TrimStart(line)),
         \* dialogueBreaks.some(e => regex[e].test(lineClean))
         dialogueBreak |-> \/ RegexPageBreak(lineClean)
                           \/ RegexPageNumber(lineClean)
                           \/ RegexSceneHeading(lineClean).ok
                           \/ RegexTransition(lineClean)
                           \/ RegexFlashback(lineClean)
                           \/ RegexAction(lineClean).ok,
         \* [...].some(e => regex[e].test(line.trim()))
         nextIsBreak |-> \/ RegexBlank(trimmed)
                         \/ RegexPageBreak(trimmed)
                         \/ RegexPageNumber(trimmed)
                         \/ RegexSceneHeading(trimmed).ok
                         \/ RegexTransition(trimmed)
                         \/ RegexFlashback(trimmed),
         sceneHeading |-> RegexSceneHeading(lineClean),
         transition |-> RegexTransition(lineClean),
         flashback  |-> RegexFlashback(lineClean),
         pageBreak  |-> RegexPageBreak(lineClean),
         pageNumber |-> RegexPageNumber(lineClean),
         character  |-> RegexCharacter(lineClean),
         \* line.match(regex['action'])
         actionMatch |-> RegexAction(line),
         trimmed    |-> trimmed] :
          decls     \in {MatchAll(EntityAnnotationAt, clean1, 1)},
          lineClean \in {StripEntityAnnotation(clean1)} } :
        anns    \in {MatchAll(AnnotationAt, line, 1)},
        clean1  \in {Trim(StripAnnotation(line))},
        trimmed \in {Trim(line)} } :
      line \in {IF vm.ok THEN SubSeq(r0, 1, vm.start - 1) \o From(r0, vm.end) ELSE r0} } :
    vm \in {RegexVfxAnnotation(r0)} } :
    r0 \in {raw} } : TRUE

\* const actionMatch = line.match(regex['action']);
\* if (actionMatch) line = actionMatch[1];
StripBang(a) == IF a.actionMatch.ok THEN a.actionMatch.g1 ELSE a.line

NL == <<"\n">>

\* textBlock.join('\n') + '\n'
BlockText(textBlock) == Join(textBlock, NL) \o NL

\* mutant of NextPage: the page number is left as it is
NextPageSame(n) == n

\* pageNum++
NextPage(n) == n + 1

\* mutant of LineClass: a character cue is recognised before anything else
LineClassCueFirst(a, indentJump) ==
    IF a.character.ok /\ indentJump THEN "character"
    ELSE IF a.sceneHeading.ok THEN "scene-heading"
    ELSE IF a.transition THEN "transition"
    ELSE IF a.flashback THEN "flashback"
    ELSE IF a.pageBreak THEN "page-break"
    ELSE IF a.pageNumber THEN "page-number"
    ELSE IF a.isBlank THEN "blank"
    ELSE "action"

\* lines 161-197: the if / else-if chain that classifies the line
LineClass(a, indentJump) ==
    IF a.sceneHeading.ok THEN "scene-heading"
    ELSE IF a.transition THEN "transition"
    ELSE IF a.flashback THEN "flashback"
    ELSE IF a.pageBreak THEN "page-break"
    ELSE IF a.pageNumber THEN "page-number"
    ELSE IF a.isBlank THEN "blank"
    ELSE IF a.character.ok /\ indentJump THEN "character"
    ELSE "action"

\* lines 161-197: the line is classified and a token emitted or a block begun
ClassifyLine(st, a, indentJump) ==
    CHOOSE r \in
    { IF class = "scene-heading" THEN
        LET m == a.sceneHeading
            newSceneNum == IF Truthy(m.g4) THEN m.g4
                           ELSE IF Truthy(m.g1) THEN m.g1
                           ELSE IncToString(ParseInt(st.sceneNum))
            heading == IF Truthy(m.g2) THEN Trim(m.g2) ELSE <<>>
        IN  [st EXCEPT !.sceneNum = newSceneNum,
                       !.tokens = Append(@, [type |-> "scene-heading", text |-> heading,
                                             sceneNum |-> newSceneNum,
                                             pageNum |-> st.pageNum, vfx |-> a.vfx])]
      ELSE IF class = "transition" THEN
        [st EXCEPT !.tokens = Append(@, [type |-> "transition", text |-> a.line \o NL])]
      ELSE IF class = "flashback" THEN
        [st EXCEPT !.tokens = Append(@, [type |-> "flashback", text |-> a.trimmed,
                                         sceneNum |-> st.sceneNum,
                                         pageNum |-> st.pageNum, vfx |-> a.vfx])]
      ELSE IF class = "page-break" THEN
        [st EXCEPT !.pageNum = NextPage(@),
                   !.tokens = Append(@, [type |-> "page-break", pageNum |-> NextPage(st.pageNum)])]
      ELSE IF class = "page-number" THEN st
      ELSE IF class = "blank" THEN st
      ELSE IF class = "character" THEN
        LET m == a.character
            char == IF Truthy(m.g1) THEN Trim(m.g1) ELSE Trim(m.g2)
        IN  [st EXCEPT !.tokens = @ \o <<[type |-> "dialogue-begin"],
                                         [type |-> "character", text |-> a.trimmed,
                                          character |-> char, dual |-> m.g4 # <<>>,
                                          vfx |-> a.vfx]>>,
                       !.entities = SetEntity(@, char, S_char, TRUE),
                       !.currentBlock = "dialogue",
                       !.textBlock = <<>>,
                       !.currentVfx = a.vfx]
      ELSE
        [st EXCEPT !.currentBlock = "action",
                   !.textBlock = <<StripBang(a)>>,
                   !.currentVfx = a.vfx] :
      class \in {LineClass(a, indentJump)} } : TRUE

\* mutant of DialogueCloses: an indent jump does not end the block
DialogueClosesOnBreakOnly(st, a, indentJump) == a.dialogueBreak

\* line 131: dialogueBreaks.some(...) || (textBlock.length && indentJump)
DialogueCloses(st, a, indentJump) ==
    a.dialogueBreak \/ (Len(st.textBlock) > 0 /\ indentJump)

\* mutant of ActionCloses: a character cue does not end the block
ActionClosesOnBreakOnly(a, indentRight) == a.nextIsBreak

\* lines 144-146: nextIsCharacter || nextIsBreak
ActionCloses(a, indentRight) == (a.character.ok /\ indentRight) \/ a.nextIsBreak

\* mutant of FallThrough: the closing line is used up by the close
FallThroughConsumed(st, a, indentJump) == st

\* after a block was closed (lines 136-141, 149-152) control leaves the
\* if / else-if and reaches line 161 with the same line
FallThrough(st, a, indentJump) == ClassifyLine(st, a, indentJump)

\* One iteration of the for loop of parseScriptSync (lines 82-198) on the
\* analysed line a, from the loop state st.
ParseStep(st, a) ==
    LET indent == a.indent
        indentRight == (indent - st.currentIndent) > 3
        indentJump == IF a.isBlank THEN FALSE ELSE Abs(st.currentIndent - indent) > 3
        st1 == [st EXCEPT !.entities = ApplyEntityCalls(@, a.calls),
                          !.currentIndent = indent]
    IN  IF st.currentBlock = "dialogue" THEN
            IF DialogueCloses(st, a, indentJump)
            THEN FallThrough(
                    [st1 EXCEPT !.tokens =
                                    (IF Len(st.textBlock) > 0
                                     THEN Append(@, [type |-> "dialogue",
                                                     text |-> BlockText(st.textBlock),
                                                     vfx |-> st.currentVfx])
                                     ELSE @) \o <<[type |-> "dialogue-end"]>>,
                                !.currentBlock = "none",
                                !.textBlock = <<>>,
                                !.currentVfx = Null],
                    a, indentJump)
            ELSE [st1 EXCEPT !.textBlock = Append(@, a.line)]
        ELSE IF st.currentBlock = "action" THEN
            IF ActionCloses(a, indentRight)
            THEN FallThrough(
                    [st1 EXCEPT !.tokens = Append(@, [type |-> "action",
                                                      text |-> BlockText(st.textBlock),
                                                      vfx |-> st.currentVfx]),
                                !.currentBlock = "none",
                                !.textBlock = <<>>,
                                !.currentVfx = Null],
                    a, indentJump)
            ELSE [st1 EXCEPT !.textBlock = Append(@, StripBang(a))]
        ELSE ClassifyLine(st1, a, indentJump)

\* the loop state at line 77-80
ParserStart ==
    [pageNum |-> 1, sceneNum |-> <<"0">>, tokens |-> <<>>, entities |-> <<>>,
     currentBlock |-> "none", textBlock |-> <<>>, currentVfx |-> Null, currentIndent |-> 0]

\* parseScriptSync on a whole text: the loop state after the first k lines;
\* after the last line
\* (its tokens and entities are what line 199 returns)
RECURSIVE ParseLines(_, _)
ParseLines(lines, k) ==
    IF k = 0 THEN ParserStart
    ELSE CHOOSE r \in {ParseStep(st, a) :
                         st \in {ParseLines(lines, k - 1)},
                         a \in {AnalyzeLine(TrimEnd(lines[k]))}} : TRUE

parseScriptSync(text) ==
    CHOOSE r \in {ParseLines(lines, Len(lines)) : lines \in {Split(text, "\n")}} : TRUE

(***************************************************************************)
(* Input lines.  A script is a sequence of indices into ScriptLines; the  *)
(* parser reads it line by line.                                           *)
(***************************************************************************)
ScriptLines == <<
    \* 1: 'INT. HOUSE - DAY'
    <<"I","N","T","."," ","H","O","U","S","E"," ","-"," ","D","A","Y">>,
    \* 2: ''
    <<>>,
    \* 3: '               JOHN'
    <<" "," "," "," "," "," "," "," "," "," "," "," "," "," "," ","J","O","H","N">>,
    \* 4: '          Hello there.'
    <<" "," "," "," "," "," "," "," "," "," ","H","e","l","l","o"," ","t","h","e","r","e",".">>,
    \* 5: '===                              2'
    <<"=","=","="," "," "," "," "," "," "," "," "," "," "," "," "," "," "," "," "," "," "," "," "," "," "," "," "," "," "," "," "," "," ","2">>,
    \* 6: 'He walks.'
    <<"H","e"," ","w","a","l","k","s",".">>,
    \* 7: 'CUT TO:'
    <<"C","U","T"," ","T","O",":">>,
    \* 8: '**Mary**[[char]] sits.'
    <<"*","*","M","a","r","y","*","*","[","[","c","h","a","r","]","]"," ","s","i","t","s",".">>,
    \* 9: '[[prop GUN, Mary]]'
    <<"[","[","p","r","o","p"," ","G","U","N",","," ","M","a","r","y","]","]">>,
    \* 10: '#5# EXT. PARK'
    <<"#","5","#"," ","E","X","T","."," ","P","A","R","K">>,
    \* 11: '               MARY ^ [[vfx 3 hard]]'
    <<" "," "," "," "," "," "," "," "," "," "," "," "," "," "," ","M","A","R","Y"," ","^"," ","[","[","v","f","x"," ","3"," ","h","a","r","d","]","]">>,
    \* 12: 'JOHN'
    <<"J","O","H","N">>,
    \* 13: 'Hello there.'
    <<"H","e","l","l","o"," ","t","h","e","r","e",".">>,
    \* 14: 'He nods. [[check this]]'
    <<"H","e"," ","n","o","d","s","."," ","[","[","c","h","e","c","k"," ","t","h","i","s","]","]">>,
    \* 15: 'She runs. [[vfx easy]]'
    <<"S","h","e"," ","r","u","n","s","."," ","[","[","v","f","x"," ","e","a","s","y","]","]">>,
    \* 16: 'He jumps. [[vfx 2 big]]'
    <<"H","e"," ","j","u","m","p","s","."," ","[","[","v","f","x"," ","2"," ","b","i","g","]","]">>,
    \* 17: '12.'
    <<"1","2",".">>,
    \* 18: 'FLASHBACK - 1990'
    <<"F","L","A","S","H","B","A","C","K"," ","-"," ","1","9","9","0">>,
    \* 19: '!BANG'
    <<"!","B","A","N","G">>,
    \* 20: '     INT. BARN'
    <<" "," "," "," "," ","I","N","T","."," ","B","A","R","N">>,
    \* 21: '     FLASHBACK'
    <<" "," "," "," "," ","F","L","A","S","H","B","A","C","K">>,
    \* 22: '#A5# EXT. PARK'
    <<"#","A","5","#"," ","E","X","T","."," ","P","A","R","K">>,
    \* 23: 'INT. ROOM 5'
    <<"I","N","T","."," ","R","O","O","M"," ","5">>,
    \* 24: '**Mary**[[char]] **Mary**[[char]]'
    <<"*","*","M","a","r","y","*","*","[","[","c","h","a","r","]","]"," ",
      "*","*","M","a","r","y","*","*","[","[","c","h","a","r","]","]">>,
    \* 25: '               @Mary'
    <<" "," "," "," "," "," "," "," "," "," "," "," "," "," "," ","@","M","a","r","y">>,
    \* 26: 'FLASHBACK [[vfx easy]]'
    <<"F","L","A","S","H","B","A","C","K"," ","[","[","v","f","x"," ","e","a","s","y","]","]">>,
    \* 27: '#5A# EXT. PARK'
    <<"#","5","A","#"," ","E","X","T","."," ","P","A","R","K">>
>>

BlankLine == CHOOSE i \in 1..Len(ScriptLines) : ScriptLines[i] = <<>>

\* script.split('\n').map(line => line.trimEnd()), analysed once per line
LineInfo == [i \in 1..Len(ScriptLines) |-> AnalyzeLine(TrimEnd(ScriptLines[i]))]

\* the lines a script is drawn from
PoolLines(p) ==
    IF p = "example" THEN {1, 2, 5, 12, 13}
    ELSE IF p = "count" THEN {1, 2, 5, 6, 10}
    ELSE IF p = "html" THEN {1, 2, 3, 4, 6, 8, 11, 14, 15, 16}
    ELSE IF p = "blocks" THEN {1, 2, 3, 4, 5, 6, 7, 9, 17, 18, 19}
    ELSE IF p = "call" THEN {1, 2, 3, 4, 6}
    ELSE IF p = "convert" THEN {1, 2, 3, 4, 6}
    ELSE IF p = "classify" THEN {1, 2, 3, 5, 6, 7, 12, 17, 18, 20, 21}
    ELSE IF p = "scene" THEN {1, 2, 6, 10, 22, 23}
    ELSE IF p = "entity" THEN {2, 3, 8, 9, 11, 24}
    ELSE IF p = "keys" THEN {2, 3, 4, 8, 9, 25}
    ELSE IF p = "weights" THEN {1, 2, 3, 4, 5, 6, 7, 18}
    ELSE IF p = "export" THEN {1, 2, 3, 4, 5, 15, 26}
    ELSE IF p = "shots" THEN {1, 2, 4, 5, 6}
    ELSE IF p = "profile" THEN {1, 2, 3, 4, 8, 10}
    ELSE IF p = "raw" THEN {1, 2, 3, 4, 6}
    ELSE IF p = "collide" THEN {2, 6, 10, 22, 27}
    ELSE 1..12

\* longest script read, per pool
MaxLines == 4
MaxExampleLines == 6
MaxCountLines == 5
MaxHtmlLines == 3
MaxRawLines == 4
MaxBlockLines == 3
MaxCallLines == 3
MaxConvertLines == 2
MaxClassifyLines == 3
MaxSceneLines == 3
MaxEntityLines == 3
MaxKeyLines == 3
MaxWeightLines == 3
MaxExportLines == 4
MaxShotLines == 4
MaxProfileLines == 4
MaxCollideLines == 3

MaxLinesOf(p) ==
    IF p = "collide" THEN MaxCollideLines
    ELSE IF p = "example" THEN MaxExampleLines
    ELSE IF p = "count" THEN MaxCountLines
    ELSE IF p = "html" THEN MaxHtmlLines
    ELSE IF p = "raw" THEN MaxRawLines
    ELSE IF p = "blocks" THEN MaxBlockLines
    ELSE IF p = "call" THEN MaxCallLines
    ELSE IF p = "convert" THEN MaxConvertLines
    ELSE IF p = "classify" THEN MaxClassifyLines
    ELSE IF p = "scene" THEN MaxSceneLines
    ELSE IF p = "entity" THEN MaxEntityLines
    ELSE IF p = "keys" THEN MaxKeyLines
    ELSE IF p = "weights" THEN MaxWeightLines
    ELSE IF p = "export" THEN MaxExportLines
    ELSE IF p = "shots" THEN MaxShotLines
    ELSE IF p = "profile" THEN MaxProfileLines
    ELSE MaxLines

VARIABLES
    pool,           \* the pool the script's lines are drawn from
    script,         \* the lines read so far
    pc,             \* "parsing", then "done" (returned) or "error" (thrown)
    pageNum, sceneNum, tokens, entities,                \* parser.js:77-79
    currentBlock, textBlock, currentVfx, currentIndent, \* parser.js:80
    argLineCount, argLinesPerPage,    \* arguments of the fractional page count
    result32, resultCalc,       \* what each implementation returned for them
    countsLpp, countsCalc,      \* what each line-count pass returned
    doc,                        \* the rich document: its paragraphs
    back,                       \* what htmlToTokens returned for the document
    raw,                        \* the raw serialization of the tokens
    reparsed,                   \* what parseScriptSync returned for it
    scriptArg,                  \* the argument of parseScript
    parsePromise,               \* the promise parseScript returned
    htmlArg,                    \* the tokens argument of tokensToHtml
    htmlPromise,                \* the promise tokensToHtml returned
    timeout,                    \* its 30 second timer: armed, cleared or fired
    expired,                    \* the 30 seconds have elapsed
    exportCall,                 \* the export in progress: its function, mode and counts
    tokenIndex,                 \* the token the export's loop is at
    exportState,                \* the export's running state (part_004:243-256)
    rows,                       \* the rows generated so far
    ocrPc,                      \* where backgroundOcrTask is
    totalPages,                 \* the page count of the pdf
    tasks,                      \* the queue's tasks, one per page pushed
    workerPool,                 \* the WorkerPool: workers, available, waiting, activeWorkers
    dead,                       \* the workers whose thread has raised an error
    chunks,                     \* the page texts received
    ocrResult,                  \* what backgroundOcrTask returned
    editorDoc,                  \* the paragraphs of the editor's document
    selection,                  \* the editor's selection, in paragraphs
    editorOp,                   \* the editor operation that ran last
    pass                        \* the line-count pass in progress, token by token

parserVars == <<pageNum, sceneNum, tokens, entities,
                currentBlock, textBlock, currentVfx, currentIndent>>

fracVars == <<argLineCount, argLinesPerPage, result32, resultCalc>>

countVars == <<countsLpp, countsCalc>>

convVars == <<doc, back>>

rawVars == <<raw, reparsed>>

asyncVars == <<scriptArg, parsePromise, htmlArg, htmlPromise, timeout, expired>>

exportVars == <<exportCall, tokenIndex, exportState, rows>>

editorVars == <<editorDoc, selection, editorOp>>

ocrVars == <<ocrPc, totalPages, tasks, workerPool, dead, chunks, ocrResult>>

vars == <<pool, script, pc, parserVars, fracVars, countVars, convVars, rawVars, asyncVars,
          exportVars, ocrVars, editorVars, pass>>

\* a call that has not happened
Pending == [k |-> "pending"]

FracIdle ==
    /\ argLineCount = Pending
    /\ argLinesPerPage = Pending
    /\ result32 = Pending
    /\ resultCalc = Pending

CountIdle == countsLpp = Pending /\ countsCalc = Pending

ConvIdle == doc = <<>> /\ back = Pending

RawIdle == raw = Pending /\ reparsed = Pending

\* no call of parseScript or tokensToHtml has been made
AsyncIdle ==
    /\ scriptArg = Pending
    /\ parsePromise = Pending
    /\ htmlArg = Pending
    /\ htmlPromise = Pending
    /\ timeout = "none"
    /\ expired = FALSE

\* no export has been started
ExportIdle ==
    /\ exportCall = Pending
    /\ tokenIndex = 0
    /\ exportState = Pending
    /\ rows = <<>>

\* no pdf is being read
OcrIdle ==
    /\ ocrPc = "idle"
    /\ totalPages = 0
    /\ tasks = <<>>
    /\ workerPool = Pending
    /\ dead = {}
    /\ chunks = <<>>
    /\ ocrResult = Pending

\* no document is open in the editor
EditorIdle ==
    /\ editorDoc = <<>>
    /\ selection = Pending
    /\ editorOp = "none"

\* no line-count pass is in progress
PassIdle == pass = Pending

notParser == <<fracVars, countVars, convVars, rawVars, asyncVars, exportVars>>

ParserState ==
    [pageNum |-> pageNum, sceneNum |-> sceneNum, tokens |-> tokens, entities |-> entities,
     currentBlock |-> currentBlock, textBlock |-> textBlock, currentVfx |-> currentVfx,
     currentIndent |-> currentIndent]

SetParserState(st) ==
    /\ pageNum' = st.pageNum
    /\ sceneNum' = st.sceneNum
    /\ tokens' = st.tokens
    /\ entities' = st.entities
    /\ currentBlock' = st.currentBlock
    /\ textBlock' = st.textBlock
    /\ currentVfx' = st.currentVfx
    /\ currentIndent' = st.currentIndent

InitParser(p) ==
    /\ pool = p
    /\ script = <<>>
    /\ pc = "parsing"
    /\ pageNum = ParserStart.pageNum
    /\ sceneNum = ParserStart.sceneNum
    /\ tokens = ParserStart.tokens
    /\ entities = ParserStart.entities
    /\ currentBlock = ParserStart.currentBlock
    /\ textBlock = ParserStart.textBlock
    /\ currentVfx = ParserStart.currentVfx
    /\ currentIndent = ParserStart.currentIndent
    /\ FracIdle
    /\ CountIdle
    /\ ConvIdle
    /\ RawIdle
    /\ AsyncIdle
    /\ ExportIdle
    /\ OcrIdle
    /\ EditorIdle
    /\ PassIdle

\* one iteration of "for (let line of lines)" on the next line of the script
ParseLine ==
    /\ pc = "parsing"
    /\ Len(script) < MaxLinesOf(pool)
    /\ \E i \in PoolLines(pool) :
        /\ script' = Append(script, i)
        /\ SetParserState(ParseStep(ParserState, LineInfo[i]))
    /\ UNCHANGED <<pool, ocrVars, editorVars, pass, pc, notParser>>

\* line 199: return [tokens, entities] when the lines are exhausted
ParseReturn ==
    /\ pc = "parsing"
    /\ Len(script) >= 1
    /\ script # <<BlankLine>>
    /\ pc' = "done"
    /\ UNCHANGED <<pool, ocrVars, editorVars, pass, script, parserVars, notParser>>

\* lines 62-65: the script '' (a single empty line) is rejected on entry,
\* before the loop state exists
ParseReject ==
    /\ pc = "parsing"
    /\ script = <<BlankLine>>
    /\ pc' = "error"
    /\ UNCHANGED <<pool, ocrVars, editorVars, pass, script, parserVars, notParser>>

NextParse == ParseLine \/ ParseReturn \/ ParseReject

InitParse == InitParser("main")

SpecParse == InitParse /\ [][NextParse]_vars

InitExample == InitParser("example")

SpecExample == InitExample /\ [][NextParse]_vars

(***************************************************************************)
(* Properties of the parser                                                *)
(***************************************************************************)
TokenTypes(ts) == [i \in 1..Len(ts) |-> ts[i].type]

\* C3: in the token sequence the parser returns, every dialogue-begin is
\* followed by a dialogue-end with no other dialogue-begin, dialogue-end or
\* scene-heading in between.
C3_DialogueBeginMatched ==
    pc = "done" =>
        \A i \in 1..Len(tokens) :
            tokens[i].type = "dialogue-begin" =>
                \E j \in (i + 1)..Len(tokens) :
                    /\ tokens[j].type = "dialogue-end"
                    /\ \A k \in (i + 1)..(j - 1) :
                         tokens[k].type \notin {"dialogue-begin", "dialogue-end", "scene-heading"}

\* C4: in the token sequence the parser returns, every character token is
\* immediately preceded by dialogue-begin and followed by zero or more
\* parenthetical/dialogue tokens and then a dialogue-end.
C4_CharacterFramed ==
    pc = "done" =>
        \A i \in 1..Len(tokens) :
            tokens[i].type = "character" =>
                /\ i > 1
                /\ tokens[i - 1].type = "dialogue-begin"
                /\ \E j \in (i + 1)..Len(tokens) :
                    /\ tokens[j].type = "dialogue-end"
                    /\ \A k \in (i + 1)..(j - 1) :
                         tokens[k].type \in {"parenthetical", "dialogue"}

\* the six-line example: 'INT. HOUSE - DAY', '', 'JOHN', 'Hello there.', '',
\* '===' rule with page number 2
ExampleScript == <<1, 2, 12, 13, 2, 5>>

ExampleParsed == pc = "done" /\ pool = "example" /\ script = ExampleScript

\* C5 (as claimed): the example parses to scene-heading 'HOUSE - DAY' (scene
\* '1', page 1), dialogue-begin, character JOHN (dual false), dialogue
\* 'Hello there.\n', dialogue-end, page-break 2, with registry {JOHN: char, 1}.
C5_ExampleAsClaimed ==
    ExampleParsed =>
        /\ TokenTypes(tokens) = <<"scene-heading", "dialogue-begin", "character",
                                  "dialogue", "dialogue-end", "page-break">>
        /\ tokens[1].text = <<"H","O","U","S","E"," ","-"," ","D","A","Y">>
        /\ tokens[1].sceneNum = <<"1">>
        /\ tokens[1].pageNum = 1
        /\ tokens[3].text = <<"J","O","H","N">>
        /\ tokens[3].character = <<"J","O","H","N">>
        /\ tokens[3].dual = FALSE
        /\ tokens[4].text = <<"H","e","l","l","o"," ","t","h","e","r","e",".","\n">>
        /\ tokens[6].pageNum = 2
        /\ Len(entities) = 1
        /\ entities[1].key = <<"J","O","H","N">>
        /\ entities[1].type = S_char
        /\ entities[1].count = 1

\* C5 (amended): the example parses to exactly three tokens: scene-heading
\* 'INT. HOUSE - DAY' (scene '1', page 1), action 'JOHN\nHello there.\n' and
\* page-break 2; the entity registry is empty.
C5_ExampleParse ==
    ExampleParsed =>
        /\ tokens = <<[type |-> "scene-heading", text |-> <<"I","N","T","."," ","H","O","U","S","E"," ","-"," ","D","A","Y">>,
                       sceneNum |-> <<"1">>, pageNum |-> 1, vfx |-> Null],
                      [type |-> "action", text |-> <<"J","O","H","N","\n","H","e","l","l","o"," ","t","h","e","r","e",".","\n">>,
                       vfx |-> Null],
                      [type |-> "page-break", pageNum |-> 2]>>
        /\ entities = <<>>

C5_Witness == ExampleParsed

\* C10: during a parse pass no entity is removed, no entity's count
\* decreases from one processed line to the next, and no count is negative.
C10_EntityCountMonotone ==
    /\ [](\A i \in 1..Len(entities) : entities[i].count >= 0)
    /\ [][\A i \in 1..Len(entities) :
            /\ i <= Len(entities')
            /\ entities'[i].key = entities[i].key
            /\ entities'[i].count >= entities[i].count]_vars

\* an entity counted twice, and one declared after it was counted
C10_Witness ==
    /\ \E i \in 1..Len(entities) : entities[i].count >= 2
    /\ Len(script) >= 3
    /\ script[Len(script)] = 9

(***************************************************************************)
(* Fractional page count                                                   *)
(*                                                                         *)
(* A JavaScript number is an exact fraction n/d (d > 0), Infinity or NaN.  *)
(* The arguments are never negative, so -Infinity does not arise.          *)
(***************************************************************************)
Fin(n, d) == [k |-> "fin", n |-> n, d |-> d]
Num(n) == Fin(n, 1)
Infinity == [k |-> "inf"]
NaNv == [k |-> "nan"]

IsNaN(a) == a.k = "nan"
IsZero(a) == a.k = "fin" /\ a.n = 0
\* !a for a number a
Not(a) == IsNaN(a) \/ IsZero(a)

\* a / b
NDiv(a, b) ==
    IF IsNaN(a) \/ IsNaN(b) THEN NaNv
    ELSE IF a.k = "inf" THEN (IF b.k = "inf" THEN NaNv ELSE Infinity)
    ELSE IF b.k = "inf" THEN Num(0)
    ELSE IF b.n = 0 THEN (IF a.n = 0 THEN NaNv ELSE Infinity)
    ELSE Fin(a.n * b.d, a.d * b.n)

\* a * b
NMul(a, b) ==
    IF IsNaN(a) \/ IsNaN(b) THEN NaNv
    ELSE IF a.k = "inf" \/ b.k = "inf"
         THEN (IF IsZero(a) \/ IsZero(b) THEN NaNv ELSE Infinity)
    ELSE Fin(a.n * b.n, a.d * b.d)

\* a + b
NAdd(a, b) ==
    IF IsNaN(a) \/ IsNaN(b) THEN NaNv
    ELSE IF a.k = "inf" \/ b.k = "inf" THEN Infinity
    ELSE Fin(a.n * b.d + b.n * a.d, a.d * b.d)

\* a - b, for b no larger than a
NSub(a, b) ==
    IF IsNaN(a) \/ IsNaN(b) THEN NaNv
    ELSE IF b.k = "inf" THEN NaNv
    ELSE IF a.k = "inf" THEN Infinity
    ELSE Fin(a.n * b.d - b.n * a.d, a.d * b.d)

\* a <= b and a < b; false when either side is NaN
NLe(a, b) ==
    /\ ~IsNaN(a) /\ ~IsNaN(b)
    /\ \/ b.k = "inf"
       \/ a.k = "fin" /\ b.k = "fin" /\ a.n * b.d <= b.n * a.d

NLt(a, b) ==
    /\ ~IsNaN(a) /\ ~IsNaN(b)
    /\ a.k = "fin"
    /\ b.k = "fin" => a.n * b.d < b.n * a.d

MathMax(a, b) ==
    IF IsNaN(a) \/ IsNaN(b) THEN NaNv ELSE IF NLe(a, b) THEN b ELSE a

MathFloor(a) == IF a.k = "fin" THEN Num(a.n \div a.d) ELSE a

\* Math.round: the nearest integer, halves upward
MathRound(a) == IF a.k = "fin" THEN Num((2 * a.n + a.d) \div (2 * a.d)) ELSE a

MathAbs(a) == IF a.k = "fin" /\ a.n < 0 THEN Fin(0 - a.n, a.d) ELSE a

\* `${a}` for an integer, Infinity or NaN
NumToString(a) ==
    IF a.k = "fin" THEN NatToStr(a.n \div a.d)
    ELSE IF a.k = "inf" THEN <<"I","n","f","i","n","i","t","y">>
    ELSE <<"N","a","N">>

Denominators == <<2, 4, 8, 16, 32>>

\* savescript.js:39-45: the first denominator within 1/64 wins; ratioRounded
\* keeps its last value when none does
RECURSIVE Loop32(_, _, _)
Loop32(ratioFraction, is, acc) ==
    IF is = <<>> THEN acc
    ELSE LET i == Num(is[1])
             ratioRounded == NDiv(MathRound(NMul(ratioFraction, i)), i)
         IN  IF NLe(MathAbs(NSub(ratioFraction, ratioRounded)), Fin(1, 64))
             THEN [ratioStr |-> NumToString(MathRound(NMul(ratioFraction, i)))
                                  \o <<"/">> \o NumToString(i),
                   ratioRounded |-> ratioRounded]
             ELSE Loop32(ratioFraction, Tail(is),
                         [ratioStr |-> Undefined, ratioRounded |-> ratioRounded])

fractionalPageCount32(lc, lpp) ==
    LET ratio == MathMax(NDiv(lc, lpp), Fin(1, 32))
        ratioWhole == MathFloor(ratio)
        ratioFraction == NSub(ratio, ratioWhole)
        loop == Loop32(ratioFraction, Denominators,
                       [ratioStr |-> Undefined, ratioRounded |-> NaNv])
        ratioStr == IF ~Not(ratioWhole)
                    THEN NumToString(ratioWhole) \o <<" ">> \o loop.ratioStr
                    ELSE loop.ratioStr
    IN  [str |-> ratioStr,
         decimal |-> NAdd(ratioWhole, loop.ratioRounded),
         lines |-> NMul(NAdd(ratioWhole, loop.ratioRounded), lpp)]

\* mutant of Improves: a denominator that only ties replaces the best so far
ImprovesOrTies(diff, bestRatio) == NLe(diff, bestRatio.diff)

\* part_004:540: diff < bestRatio.diff
Improves(diff, bestRatio) == NLt(diff, bestRatio.diff)

\* part_004:537-547: the denominator with the strictly smallest difference
RECURSIVE BestRatio(_, _, _)
BestRatio(ratioFraction, is, bestRatio) ==
    IF is = <<>> THEN bestRatio
    ELSE LET i == Num(is[1])
             rounded == NDiv(MathRound(NMul(ratioFraction, i)), i)
             diff == MathAbs(NSub(ratioFraction, rounded))
         IN  BestRatio(ratioFraction, Tail(is),
                 IF Improves(diff, bestRatio)
                 THEN [diff |-> diff,
                       str |-> NumToString(MathRound(NMul(ratioFraction, i)))
                                 \o <<"/">> \o NumToString(i),
                       decimal |-> rounded]
                 ELSE bestRatio)

calculateFractionalPageCount(lc0, lpp0) ==
    IF Not(lc0) \/ Not(lpp0) \/ IsNaN(lc0) \/ IsNaN(lpp0)
    THEN [str |-> <<"0">>, decimal |-> Num(0), lines |-> Num(0)]
    ELSE
    LET lc == MathMax(Num(0), lc0)
        lpp == MathMax(Num(1), lpp0)
        ratio == MathMax(NDiv(lc, lpp), Fin(1, 32))
        ratioWhole == MathFloor(ratio)
        ratioFraction == NSub(ratio, ratioWhole)
        bestRatio == BestRatio(ratioFraction, Denominators,
                               [diff |-> Num(1), str |-> <<"0">>, decimal |-> Num(0)])
        ratioDecimal == NAdd(ratioWhole, bestRatio.decimal)
        displayStr == IF ~Not(ratioWhole)
                      THEN NumToString(ratioWhole) \o <<" ">> \o bestRatio.str
                      ELSE bestRatio.str
    IN  [str |-> displayStr, decimal |-> ratioDecimal, lines |-> NMul(ratioDecimal, lpp)]

\* largest finite arguments
MaxLineCount == 100
MaxLinesPerPage == 100

LineCounts == {Num(n) : n \in 0..MaxLineCount} \cup {Infinity, NaNv}
LinesPerPageValues == {Num(n) : n \in 0..MaxLinesPerPage}

InitFrac ==
    /\ pool = "none"
    /\ script = <<>>
    /\ pc = "metrics"
    /\ pageNum = ParserStart.pageNum
    /\ sceneNum = ParserStart.sceneNum
    /\ tokens = ParserStart.tokens
    /\ entities = ParserStart.entities
    /\ currentBlock = ParserStart.currentBlock
    /\ textBlock = ParserStart.textBlock
    /\ currentVfx = ParserStart.currentVfx
    /\ currentIndent = ParserStart.currentIndent
    /\ argLineCount \in LineCounts
    /\ argLinesPerPage \in LinesPerPageValues
    /\ result32 = Pending
    /\ resultCalc = Pending
    /\ CountIdle
    /\ ConvIdle
    /\ RawIdle
    /\ AsyncIdle
    /\ ExportIdle
    /\ OcrIdle
    /\ EditorIdle
    /\ PassIdle

FractionalPageCount32 ==
    /\ pc = "metrics"
    /\ result32 = Pending
    /\ result32' = fractionalPageCount32(argLineCount, argLinesPerPage)
    /\ UNCHANGED <<pool, ocrVars, editorVars, pass, script, pc, parserVars, argLineCount, argLinesPerPage, resultCalc, countVars, convVars, rawVars, asyncVars, exportVars>>

CalculateFractionalPageCount ==
    /\ pc = "metrics"
    /\ resultCalc = Pending
    /\ resultCalc' = calculateFractionalPageCount(argLineCount, argLinesPerPage)
    /\ UNCHANGED <<pool, ocrVars, editorVars, pass, script, pc, parserVars, argLineCount, argLinesPerPage, result32, countVars, convVars, rawVars, asyncVars, exportVars>>

NextFrac == FractionalPageCount32 \/ CalculateFractionalPageCount

SpecFrac == InitFrac /\ [][NextFrac]_vars

IsZeroResult(r) == r.str = <<"0">> /\ IsZero(r.decimal) /\ IsZero(r.lines)

FracClaim(r) ==
    r # Pending =>
        /\ (argLineCount = Num(0) /\ argLinesPerPage = Num(100)) => IsZeroResult(r)
        /\ (argLineCount = Num(100) /\ argLinesPerPage = Num(100)) =>
               MathFloor(r.decimal) = Num(1)
        /\ (IsZero(argLinesPerPage) \/ IsZero(argLineCount) \/ argLineCount.k # "fin") =>
               IsZeroResult(r)
        /\ ~IsNaN(r.decimal)
        /\ ~IsNaN(r.lines)

\* C9: the fractional page count of (0, 100) is ('0', 0, 0), that of
\* (100, 100) has whole part 1, and with linesPerPage = 0 or a zero or
\* non-finite line count the result is ('0', 0, 0); no NaN is returned.
C9_FractionalPageCountDegenerate == FracClaim(result32) /\ FracClaim(resultCalc)

(***************************************************************************)
(* Line-count pass (savescript.js linesPerPage, part_004                   *)
(* calculateLineCounts).  pageCounts and sceneCounts are objects: here     *)
(* sequences of [key, count] in insertion order.                           *)
(***************************************************************************)
KeyIndex(m, key) ==
    IF \E i \in 1..Len(m) : m[i].key = key
    THEN CHOOSE i \in 1..Len(m) : m[i].key = key
    ELSE 0

\* m[key] = count
SetKey(m, key, count) ==
    LET i == KeyIndex(m, key)
    IN  IF i = 0 THEN Append(m, [key |-> key, count |-> count])
        ELSE [m EXCEPT ![i].count = count]

\* regex['scene-number'] anchored at index i:
\* /#?((?:([0-9]+)([a-z]*))|(?:([a-z]+)([0-9]+)))#?/i
SceneNumberAt(s, i) ==
    LET p  == IF At(s, i, <<"#">>) THEN i + 1 ELSE i
        d1 == RunEnd(s, p, Digit)
        l1 == RunEnd(s, d1, Letter)
        l2 == RunEnd(s, p, Letter)
        d2 == RunEnd(s, l2, Digit)
    IN  IF d1 > p
        THEN [ok |-> TRUE, start |-> i, end |-> IF At(s, l1, <<"#">>) THEN l1 + 1 ELSE l1,
              g1 |-> SubSeq(s, p, l1 - 1), g2 |-> SubSeq(s, p, d1 - 1),
              g3 |-> SubSeq(s, d1, l1 - 1), g4 |-> Undefined, g5 |-> Undefined]
        ELSE IF l2 > p /\ d2 > l2
        THEN [ok |-> TRUE, start |-> i, end |-> IF At(s, d2, <<"#">>) THEN d2 + 1 ELSE d2,
              g1 |-> SubSeq(s, p, d2 - 1), g2 |-> Undefined, g3 |-> Undefined,
              g4 |-> SubSeq(s, p, l2 - 1), g5 |-> SubSeq(s, l2, d2 - 1)]
        ELSE NoMatch

\* String.fromCharCode(c.charCodeAt(0) + 1)
CharSucc(c) ==
    IF c = "9" THEN ":" ELSE IF c = "Z" THEN "[" ELSE IF c = "z" THEN "{"
    ELSE IF c \in Digit THEN DigitSeq[1 + CHOOSE i \in 1..10 : DigitSeq[i] = c]
    ELSE IF c \in Upper THEN UpperSeq[1 + CHOOSE i \in 1..26 : UpperSeq[i] = c]
    ELSE LowerSeq[1 + CHOOSE i \in 1..26 : LowerSeq[i] = c]

\* x.slice(0, -1) + String.fromCharCode(x.charCodeAt(x.length - 1) + 1)
BumpLast(x) == SubSeq(x, 1, Len(x) - 1) \o <<CharSucc(x[Len(x)])>>

\* savescript.js:78-89, one turn of the collision loop.  A scene number
\* holds a digit, so the match succeeds, and its group 1 spans the whole
\* match, so the branches of lines 85-89 are never taken.
NextSceneNum(num) ==
    LET m == FirstMatch(SceneNumberAt, num, 1)
    IN  IF Truthy(m.g1)
        THEN IF Truthy(m.g2) THEN m.g1 \o BumpLast(m.g2) ELSE m.g1 \o <<"A">>
        ELSE IF Truthy(m.g3) THEN BumpLast(m.g3) \o m.g4
        ELSE m.g4 \o <<"A">>

\* savescript.js:77-90
RECURSIVE ResolveCollision(_, _)
ResolveCollision(sceneCounts, num) ==
    LET i == KeyIndex(sceneCounts, num)
    IN  IF i # 0 /\ sceneCounts[i].count > 0
        THEN ResolveCollision(sceneCounts, NextSceneNum(num))
        ELSE num

\* (textStripped.match(/\n/g) || []).length
NewlineCount(token) ==
    CountCh(Trim(StripAnnotation(IF "text" \in DOMAIN token THEN token.text ELSE <<>>)), "\n")

\* mutant of TokenLines: a block counts one line less
TokenLinesShort(token) ==
    IF token.type \in {"character", "parenthetical"} THEN NewlineCount(token) + 1
    ELSE IF token.type \in {"dialogue", "action", "flashback", "transition"}
    THEN NewlineCount(token) + 1
    ELSE 0

\* the lines a token adds to its page and scene (savescript.js:95-101)
TokenLines(token) ==
    IF token.type \in {"character", "parenthetical"} THEN NewlineCount(token) + 1
    ELSE IF token.type \in {"dialogue", "action", "flashback", "transition"}
    THEN NewlineCount(token) + 2
    ELSE 0

\* savescript.js:56-60
RECURSIVE KnownScenes(_)
KnownScenes(ts) ==
    IF ts = <<>> THEN <<>>
    ELSE LET rest == KnownScenes(SubSeq(ts, 1, Len(ts) - 1))
             t == ts[Len(ts)]
         IN  IF t.type = "scene-heading" /\ Truthy(t.sceneNum)
             THEN SetKey(rest, t.sceneNum, 0) ELSE rest

\* the body of the second forEach for token k; disambiguate is set for
\* linesPerPage, whose lines 77-92 calculateLineCounts does not have
CountToken(c, k, disambiguate) ==
    LET token == c.tokens[k] IN
    IF token.type = "page-break" THEN
        [c EXCEPT !.pageCounts = IF c.pageCount # 0
                                 THEN SetKey(@, c.pageNum, c.pageCount) ELSE @,
                  !.pageNum = token.pageNum,
                  !.pageCount = 0]
    ELSE IF token.type = "scene-heading" THEN
        LET flushed == IF Truthy(c.sceneNum)
                       THEN SetKey(c.sceneCounts, c.sceneNum, c.sceneCount)
                       ELSE c.sceneCounts
            named == IF Truthy(token.sceneNum) THEN token.sceneNum ELSE c.sceneNum
            resolved == IF disambiguate THEN ResolveCollision(flushed, named) ELSE named
        IN  [c EXCEPT !.sceneCounts = flushed,
                      !.sceneNum = resolved,
                      !.tokens = IF disambiguate
                                 THEN [@ EXCEPT ![k].sceneNum = resolved] ELSE @,
                      !.sceneCount = 2,
                      !.pageCount = @ + 2]
    ELSE [c EXCEPT !.pageCount = @ + TokenLines(token),
                   !.sceneCount = @ + TokenLines(token)]

\* the state of the pass after the first k tokens; the set constructor binds
\* the earlier state as a value, so that it is computed once
RECURSIVE CountTokens(_, _, _)
CountTokens(ts, k, disambiguate) ==
    IF k = 0
    THEN [pageNum |-> 1, pageCounts |-> <<>>, pageCount |-> 0,
          sceneNum |-> Null, sceneCounts |-> KnownScenes(ts),
          sceneCount |-> 0, tokens |-> ts]
    ELSE CHOOSE r \in {CountToken(c, k, disambiguate) :
                         c \in {CountTokens(ts, k - 1, disambiguate)}} : TRUE

\* lines 104-111: the last page and the last scene are flushed
FlushCounts(c) ==
    [pageCounts |-> IF c.pageCount # 0
                    THEN SetKey(c.pageCounts, c.pageNum, c.pageCount)
                    ELSE c.pageCounts,
     sceneCounts |-> IF Truthy(c.sceneNum)
                     THEN SetKey(c.sceneCounts, c.sceneNum, c.sceneCount)
                     ELSE c.sceneCounts,
     tokens |-> c.tokens]

CountPass(ts, disambiguate) ==
    CHOOSE r \in {FlushCounts(c) : c \in {CountTokens(ts, Len(ts), disambiguate)}} : TRUE

linesPerPage(ts) == CountPass(ts, TRUE)

calculateLineCounts(ts) == CountPass(ts, FALSE)

\* linesPerPage(tokens) on what the parser returned; line 92 writes the
\* resolved scene numbers back into the tokens
LinesPerPage ==
    /\ pc = "done"
    /\ countsLpp = Pending /\ countsCalc = Pending
    /\ \E r \in {linesPerPage(tokens)} :
           /\ countsLpp' = [pageCounts |-> r.pageCounts, sceneCounts |-> r.sceneCounts]
           /\ tokens' = r.tokens
    /\ UNCHANGED <<pool, ocrVars, editorVars, pass, script, pc, pageNum, sceneNum, entities, currentBlock,
                   textBlock, currentVfx, currentIndent, fracVars, countsCalc, convVars, rawVars, asyncVars, exportVars>>

CalculateLineCounts ==
    /\ pc = "done"
    /\ countsLpp = Pending /\ countsCalc = Pending
    /\ \E r \in {calculateLineCounts(tokens)} :
           countsCalc' = [pageCounts |-> r.pageCounts, sceneCounts |-> r.sceneCounts]
    /\ UNCHANGED <<pool, ocrVars, editorVars, pass, script, pc, parserVars, fracVars, countsLpp, convVars, rawVars, asyncVars, exportVars>>

NextCount == NextParse \/ LinesPerPage \/ CalculateLineCounts

InitCount == InitParser("count")

SpecCount == InitCount /\ [][NextCount]_vars

(***************************************************************************)
(* Properties of the line-count pass                                       *)
(***************************************************************************)
Headings(ts) == {i \in 1..Len(ts) : ts[i].type = "scene-heading"}

\* the script line the heading token at index i was parsed from
HeadingLine(ts, i) ==
    LET hs == SelectSeq(script, LAMBDA l : LineInfo[l].sceneHeading.ok)
    IN  hs[Cardinality({h \in Headings(ts) : h <= i})]

\* the heading's scene number was written in the script
Explicit(ts, i) ==
    LET m == LineInfo[HeadingLine(ts, i)].sceneHeading
    IN  Truthy(m.g4) \/ Truthy(m.g1)

RECURSIVE LinesFrom(_, _)
LinesFrom(ts, k) ==
    IF k > Len(ts) THEN 0
    ELSE IF ts[k].type = "scene-heading" THEN 0
    ELSE TokenLines(ts[k]) + LinesFrom(ts, k + 1)

\* the lines of the scene whose heading is the token at index i
SceneLines(ts, i) == 2 + LinesFrom(ts, i + 1)

CountUnder(r, key) ==
    LET k == KeyIndex(r.sceneCounts, key)
    IN  IF k = 0 THEN 0 - 1 ELSE r.sceneCounts[k].count

Disambiguated(ts, r) ==
    \A i, j \in Headings(ts) :
        ( /\ i < j
          /\ Explicit(ts, i) /\ Explicit(ts, j)
          /\ ts[i].sceneNum = ts[j].sceneNum
          /\ Cardinality({h \in Headings(ts) : ts[h].sceneNum = ts[i].sceneNum}) = 2 )
        => /\ CountUnder(r, ts[i].sceneNum) = SceneLines(ts, i)
           /\ \E c \in Upper : CountUnder(r, ts[i].sceneNum \o <<c>>) = SceneLines(ts, j)

\* C7: when exactly two scene headings carry the same explicit scene number,
\* the pass counts the first scene under that number and the second under
\* the number with a letter suffix; the first count is not overwritten.
C7_CollisionDisambiguated ==
    [][ /\ countsLpp' # countsLpp => Disambiguated(tokens, countsLpp')
        /\ countsCalc' # countsCalc => Disambiguated(tokens, countsCalc') ]_vars

RECURSIVE SumCounts(_)
SumCounts(m) == IF m = <<>> THEN 0 ELSE m[1].count + SumCounts(Tail(m))

SumsAgree(r) ==
    r # Pending => SumCounts(r.sceneCounts) = SumCounts(r.pageCounts)

\* C8: the per-scene line counts returned by the pass sum to the same total
\* as the per-page line counts it returns.
C8_SceneSumEqualsPageSum == SumsAgree(countsLpp) /\ SumsAgree(countsCalc)

(***************************************************************************)
(* Document converter (part_006, the htmlConverter module; parser.js keeps *)
(* an older copy of the same two functions).                               *)
(*                                                                         *)
(* The document is the DOM that JSDOM builds from the HTML: a sequence of  *)
(* paragraphs, each with its class list, its data attributes and its       *)
(* inline nodes (text, <mark class=..>, <span class="note-bubble">).       *)
(* Texts hold no '<', '>' or '&', notes hold no entity name, and no mark   *)
(* or note spans a line break.                                             *)
(***************************************************************************)
\* config.shared.js: the ids of vfx.difficultyLevels, in order
VfxLevels == <<"easy", "mid", "hard", "epic">>

LevelText(l) ==
    CASE l = "easy" -> <<"e","a","s","y">>
      [] l = "mid"  -> <<"m","i","d">>
      [] l = "hard" -> <<"h","a","r","d">>
      [] l = "epic" -> <<"e","p","i","c">>

\* VFX_REGEX anchored at index i: /\s*(\d+)?\s*(easy|mid|hard|epic)\s*/
VfxLevelAt(s, i) ==
    LET a == RunEnd(s, i, Space)
        d == RunEnd(s, a, Digit)
        b == RunEnd(s, d, Space)
    IN  IF \E k \in 1..Len(VfxLevels) : At(s, b, LevelText(VfxLevels[k]))
        THEN LET l == VfxLevels[CHOOSE k \in 1..Len(VfxLevels) : At(s, b, LevelText(VfxLevels[k]))]
             IN  [ok |-> TRUE, start |-> i, end |-> RunEnd(s, b + Len(LevelText(l)), Space),
                  g1 |-> IF d > a THEN SubSeq(s, a, d - 1) ELSE Undefined, g2 |-> l]
        ELSE NoMatch

\* the classes added to the paragraph and its data-shot-number
extractVfxAttributes(vfx) ==
    IF ~Truthy(vfx) THEN [vfxClass |-> <<>>, vfxShotNum |-> Undefined]
    ELSE LET match == FirstMatch(VfxLevelAt, vfx, 1)
         IN  IF ~match.ok THEN [vfxClass |-> <<"vfx">>, vfxShotNum |-> Undefined]
             ELSE [vfxClass |-> <<"vfx", match.g2>>, vfxShotNum |-> match.g1]

\* regex['note'] anchored at index i:
\* /\[\[(?!vfx|char|prop|env|fx\b)([^\[\]]*?)\]\]/g
NoteAt(s, i) ==
    LET e == RunEnd(s, i + 2, STRING \ {"[", "]"})
    IN  IF /\ At(s, i, <<"[","[">>)
           /\ ~At(s, i + 2, <<"v","f","x">>)
           /\ ~At(s, i + 2, <<"c","h","a","r">>)
           /\ ~At(s, i + 2, <<"p","r","o","p">>)
           /\ ~At(s, i + 2, <<"e","n","v">>)
           /\ ~(At(s, i + 2, <<"f","x">>) /\ (i + 4 > Len(s) \/ s[i + 4] \notin WordCh))
           /\ At(s, e, <<"]","]">>)
        THEN [ok |-> TRUE, start |-> i, end |-> e + 2, g1 |-> SubSeq(s, i + 2, e - 1)]
        ELSE NoMatch

\* \b between the characters at p - 1 and p
WordBoundary(s, p) ==
    (p - 1 >= 1 /\ p - 1 <= Len(s) /\ s[p - 1] \in WordCh)
        # (p >= 1 /\ p <= Len(s) /\ s[p] \in WordCh)

\* one alternative of the entity regex, (?<!\*\*)\b(KEY)\b(?!\*\*) with /i,
\* anchored at index i
EntityNameAt(s, i, key) ==
    /\ key # <<>>
    /\ AtCI(s, i, key)
    /\ ~At(s, i - 2, <<"*","*">>)
    /\ WordBoundary(s, i)
    /\ WordBoundary(s, i + Len(key))
    /\ ~At(s, i + Len(key), <<"*","*">>)

\* what wrapEntityMarks and the note replacement put at index i: a note
\* span, a mark for the first registry key found there, or a mark for an
\* inline annotation
NodeAt(s, i, ents) ==
    LET n == NoteAt(s, i)
        a == AnnotationAt(s, i)
    IN  IF n.ok THEN [ok |-> TRUE, end |-> n.end, node |-> [kind |-> "note", text |-> n.g1]]
        ELSE IF \E k \in 1..Len(ents) : EntityNameAt(s, i, ents[k].key)
        THEN LET k == CHOOSE k \in 1..Len(ents) :
                        /\ EntityNameAt(s, i, ents[k].key)
                        /\ \A j \in 1..(k - 1) : ~EntityNameAt(s, i, ents[j].key)
                 key == ToUpperCase(Trim(SubSeq(s, i, i + Len(ents[k].key) - 1)))
             IN  [ok |-> TRUE, end |-> i + Len(ents[k].key),
                  node |-> IF EntityIndex(ents, key) = 0
                           THEN [kind |-> "text", text |-> SubSeq(s, i, i + Len(ents[k].key) - 1)]
                           ELSE [kind |-> "mark", class |-> ents[EntityIndex(ents, key)].type,
                                 text |-> key]]
        ELSE IF a.ok
        THEN [ok |-> TRUE, end |-> a.end,
              node |-> [kind |-> "mark", class |-> a.g2, text |-> a.g1]]
        ELSE NoMatch

\* index of the first node at or after i, or Len(s) + 1
RECURSIVE TextEnd(_, _, _)
TextEnd(s, i, ents) ==
    IF i > Len(s) THEN i
    ELSE IF NodeAt(s, i, ents).ok THEN i
    ELSE TextEnd(s, i + 1, ents)

\* the inline nodes of tokenTextWrap from index i on
RECURSIVE InlineNodes(_, _, _)
InlineNodes(s, i, ents) ==
    IF i > Len(s) THEN <<>>
    ELSE CHOOSE r \in
        { IF m.ok THEN <<m.node>> \o InlineNodes(s, m.end, ents)
          ELSE CHOOSE t \in { <<[kind |-> "text", text |-> SubSeq(s, i, j - 1)]>>
                                \o InlineNodes(s, j, ents) :
                              j \in {TextEnd(s, i + 1, ents)} } : TRUE
          : m \in {NodeAt(s, i, ents)} } : TRUE

Paragraph(classes, sceneNumber, shotNumber, pageNumber, nodes) ==
    [classes |-> classes, sceneNumber |-> sceneNumber, shotNumber |-> shotNumber,
     pageNumber |-> pageNumber, nodes |-> nodes]

\* <p><br></p>
BlankParagraph == Paragraph(<<>>, Undefined, Undefined, Undefined, <<>>)

\* the non-blank lines of a dialogue or action text, one paragraph each
convertBlockToHtml(type, text, ents, v) ==
    LET lines == NonEmpty(Split(text, "\n"))
    IN  [k \in 1..Len(lines) |->
            Paragraph(<<type>> \o v.vfxClass, Undefined, v.vfxShotNum, Undefined,
                      InlineNodes(lines[k], 1, ents))]
        \o <<BlankParagraph>>

\* the rule of a page break: 55 '=' and a blank
PageRule == [i \in 1..56 |-> IF i <= 55 THEN "=" ELSE " "]

convertTokenToHtml(token, ents) ==
    LET text == IF "text" \in DOMAIN token /\ Truthy(token.text) THEN token.text ELSE <<>>
        v == extractVfxAttributes(IF "vfx" \in DOMAIN token THEN token.vfx ELSE Undefined)
        nodes == InlineNodes(text, 1, ents)
        type == token.type
    IN  IF type = "scene-heading"
        THEN <<Paragraph(<<type>> \o v.vfxClass,
                         IF Truthy(token.sceneNum) THEN token.sceneNum ELSE Undefined,
                         Undefined, Undefined, nodes), BlankParagraph>>
        ELSE IF type = "transition"
        THEN <<Paragraph(<<type>> \o v.vfxClass, Undefined, v.vfxShotNum, Undefined, nodes),
               BlankParagraph>>
        ELSE IF type \in {"flashback", "character", "centered"}
        THEN <<Paragraph(<<type>> \o v.vfxClass, Undefined, v.vfxShotNum, Undefined, nodes)>>
        ELSE IF type = "parenthetical"
        THEN <<Paragraph(<<type>>, Undefined, v.vfxShotNum, Undefined, nodes)>>
        ELSE IF type \in {"dialogue", "action"}
        THEN convertBlockToHtml(type, text, ents, v)
        ELSE IF type = "page-break"
        THEN <<Paragraph(<<type>>, Undefined, Undefined,
                         IF token.pageNum = NaN THEN <<"N","a","N">> ELSE NatToStr(token.pageNum),
                         <<[kind |-> "text", text |-> PageRule]>>), BlankParagraph>>
        ELSE <<>>

RECURSIVE tokensToHtmlSync(_, _)
tokensToHtmlSync(ts, ents) ==
    IF ts = <<>> THEN <<>>
    ELSE convertTokenToHtml(ts[1], ents) \o tokensToHtmlSync(Tail(ts), ents)

\* mark.classList[0]
ClassList0(class) ==
    LET w == NonEmpty(Split(class, " "))
    IN  IF w = <<>> THEN Undefined ELSE w[1]

\* para.textContent once every mark is rewritten as **text**[[class]] and
\* every note is removed
RECURSIVE TextContent(_)
TextContent(nodes) ==
    IF nodes = <<>> THEN <<>>
    ELSE (IF nodes[1].kind = "text" THEN nodes[1].text
          ELSE IF nodes[1].kind = "mark"
          THEN <<"*","*">> \o nodes[1].text \o <<"*","*","[","[">>
               \o ClassList0(nodes[1].class) \o <<"]","]">>
          ELSE <<>>)
         \o TextContent(Tail(nodes))

\* ' ' + notes.map(note => `[[${note}]]`).join(' '), or '' without notes
NoteText(nodes) ==
    LET notes == SelectSeq(nodes, LAMBDA n : n.kind = "note")
    IN  IF notes = <<>> THEN <<>>
        ELSE <<" ">> \o Join([k \in 1..Len(notes) |->
                                  <<"[","[">> \o notes[k].text \o <<"]","]">>], <<" ">>)

\* the text of a paragraph: part_006:320 appends the notes before line 265
\* trims; parser.js:351 trims first
ParagraphText(para, legacy) ==
    IF legacy THEN Trim(TextContent(para.nodes)) \o NoteText(para.nodes)
    ELSE Trim(TextContent(para.nodes) \o NoteText(para.nodes))

\* the registry after the marks of a paragraph (part_006:307-313)
RECURSIVE MarkEntities(_, _)
MarkEntities(ents, nodes) ==
    IF nodes = <<>> THEN ents
    ELSE IF nodes[Len(nodes)].kind = "mark"
    THEN SetEntity(MarkEntities(ents, SubSeq(nodes, 1, Len(nodes) - 1)),
                   ToUpperCase(nodes[Len(nodes)].text),
                   ClassList0(nodes[Len(nodes)].class), TRUE)
    ELSE MarkEntities(ents, SubSeq(nodes, 1, Len(nodes) - 1))

\* the names of every declarative annotation of the text: match[2].split(',')
\* without the parser's filter(Boolean)
RECURSIVE DefinedNames(_)
DefinedNames(ms) ==
    IF ms = <<>> THEN <<>>
    ELSE LET names == Split(ms[1].g2, ",")
         IN  [k \in 1..Len(names) |-> [key |-> ToUpperCase(Trim(names[k])), type |-> ms[1].g1]]
             \o DefinedNames(Tail(ms))

RECURSIVE processEntityDefinitions(_, _)
processEntityDefinitions(ents, defs) ==
    IF defs = <<>> THEN ents
    ELSE SetEntity(processEntityDefinitions(ents, SubSeq(defs, 1, Len(defs) - 1)),
                   defs[Len(defs)].key, defs[Len(defs)].type, FALSE)

\* part_006:290-299
extractVfxFromClasses(para) ==
    LET has(c) == \E k \in 1..Len(para.classes) : para.classes[k] = c
        levels == SelectSeq(VfxLevels, has)
    IN  IF ~has("vfx") THEN Null
        ELSE IF levels = <<>> THEN Null
        ELSE IF Truthy(para.shotNumber)
        THEN para.shotNumber \o <<" ">> \o LevelText(levels[1])
        ELSE LevelText(levels[1])

\* parser.js:332-334
LegacyVfxClasses(para) ==
    LET has(c) == \E k \in 1..Len(para.classes) : para.classes[k] = c
        levels == SelectSeq(VfxLevels, has)
    IN  IF ~has("vfx") THEN Null
        ELSE (IF Truthy(para.shotNumber) THEN para.shotNumber ELSE <<>>) \o <<" ">>
             \o Join([k \in 1..Len(levels) |-> LevelText(levels[k])], <<" ">>)

\* /^\d+$/.test(x)
AllDigits(x) == x # <<>> /\ \A k \in 1..Len(x) : x[k] \in Digit

\* part_006:346-354
updateVfxState(current, newVfx) ==
    IF ~Truthy(newVfx) THEN current
    ELSE LET newFirst == Split(newVfx, " ")[1]
             currentShot == IF current = Null THEN Undefined
                            ELSE Split(current, " ")[1]
         IN  IF AllDigits(newFirst) THEN newVfx
             ELSE IF currentShot # Undefined /\ AllDigits(currentShot)
             THEN currentShot \o <<" ">> \o newFirst
             ELSE newVfx

\* the classes that name a token type, in the order they are tested
TokenTypeOrder == <<"action", "dialogue", "character", "parenthetical", "scene-heading",
                    "page-break", "transition", "flashback", "centered">>

\* the token pushed when a block ends (part_006:272-276, 235-239)
BlockToken(st) ==
    [type |-> st.blockType, text |-> Join(st.blockText, NL), vfx |-> st.blockVfx]

\* part_006:365-395 for a paragraph of the given type; legacy is set for the
\* copy in parser.js (lines 375-397)
processParagraphByType(st, para, type, text, vfxClasses, legacy) ==
    IF type \in {"action", "dialogue"}
    THEN [st EXCEPT !.blockType = type,
                    !.blockVfx = IF legacy
                                 THEN (IF Truthy(@) THEN @ ELSE vfxClasses)
                                 ELSE updateVfxState(@, vfxClasses),
                    !.blockText = Append(@, text)]
    ELSE LET sceneNum0 == IF Truthy(para.sceneNumber) THEN para.sceneNumber ELSE <<>>
             pageNum0 == IF Truthy(para.pageNumber) THEN para.pageNumber ELSE <<>>
             token ==
               IF type = "character"
               THEN [type |-> type, text |-> text, character |-> text, vfx |-> vfxClasses]
               ELSE IF type = "scene-heading"
               THEN [type |-> type, text |-> text, sceneNum |-> sceneNum0, vfx |-> vfxClasses]
               ELSE IF type = "page-break"
               THEN (IF legacy THEN [type |-> type, pageNum |-> pageNum0]
                     ELSE [type |-> type, text |-> text, pageNum |-> pageNum0,
                           vfx |-> vfxClasses])
               ELSE [type |-> type, text |-> text, vfx |-> vfxClasses]
         IN  [st EXCEPT !.tokens = Append(@, token)]

\* part_006:259-283 (parser.js:331-397).  Line 266, classes.length = 0, is
\* an assignment to a getter-only property and changes nothing.
processHtmlParagraph(st, para, legacy) ==
    LET has(c) == \E k \in 1..Len(para.classes) : para.classes[k] = c
        vfxClasses == IF legacy THEN LegacyVfxClasses(para) ELSE extractVfxFromClasses(para)
        text == ParagraphText(para, legacy)
        ents == processEntityDefinitions(MarkEntities(st.entities, para.nodes),
                    DefinedNames(MatchAll(EntityAnnotationAt, text, 1)))
        flush == st.blockType # "none" /\ ~has(st.blockType)
        st1 == [st EXCEPT !.entities = ents,
                          !.tokens = IF flush THEN Append(@, BlockToken(st)) ELSE @,
                          !.blockType = IF flush THEN "none" ELSE @,
                          !.blockText = IF flush THEN <<>> ELSE @,
                          !.blockVfx = IF flush THEN Null ELSE @]
        types == SelectSeq(TokenTypeOrder, has)
    IN  IF types = <<>> THEN st1
        ELSE CHOOSE r \in { processParagraphByType(x.st, para, types[1], x.text, x.vfx, legacy) :
                            x \in {[st |-> st1, text |-> text, vfx |-> vfxClasses]} } : TRUE

\* the conversion state after the first k paragraphs
RECURSIVE ConvertParagraphs(_, _, _)
ConvertParagraphs(paras, k, legacy) ==
    IF k = 0
    THEN [tokens |-> <<>>, entities |-> <<>>, blockType |-> "none",
          blockText |-> <<>>, blockVfx |-> Null]
    ELSE CHOOSE r \in { processHtmlParagraph(st, paras[k], legacy) :
                        st \in {ConvertParagraphs(paras, k - 1, legacy)} } : TRUE

\* part_006:212-252, parser.js:322-405.  The html of an empty document is
\* '', which part_006:213 rejects.
htmlToTokens(paras, legacy) ==
    IF ~legacy /\ paras = <<>>
    THEN [error |-> TRUE, tokens |-> <<>>, entities |-> <<>>]
    ELSE CHOOSE r \in
        { [error |-> FALSE,
           tokens |-> IF st.blockType # "none" THEN Append(st.tokens, BlockToken(st))
                      ELSE st.tokens,
           entities |-> st.entities] :
          st \in {ConvertParagraphs(paras, Len(paras), legacy)} } : TRUE

\* tokensToHtml(tokens, entities) on what the parser returned
TokensToHtml ==
    /\ pc = "done"
    /\ pc' = "html"
    /\ doc' = tokensToHtmlSync(tokens, entities)
    /\ UNCHANGED <<pool, ocrVars, editorVars, pass, script, parserVars, fracVars, countVars, back, rawVars, asyncVars, exportVars>>

\* htmlToTokens(html) of the htmlConverter module
HtmlToTokens ==
    /\ pc \in {"html", "editing"}
    /\ pc' = "converted"
    /\ \E r \in {htmlToTokens(doc, FALSE)} :
           back' = [legacy |-> FALSE, error |-> r.error, tokens |-> r.tokens,
                    entities |-> r.entities]
    /\ UNCHANGED <<pool, ocrVars, editorVars, pass, script, parserVars, fracVars, countVars, doc, rawVars, asyncVars, exportVars>>

\* htmlToTokens(html) of parser.js
HtmlToTokensLegacy ==
    /\ pc \in {"html", "editing"}
    /\ pc' = "converted"
    /\ \E r \in {htmlToTokens(doc, TRUE)} :
           back' = [legacy |-> TRUE, error |-> r.error, tokens |-> r.tokens,
                    entities |-> r.entities]
    /\ UNCHANGED <<pool, ocrVars, editorVars, pass, script, parserVars, fracVars, countVars, doc, rawVars, asyncVars, exportVars>>

NextHtml == NextParse \/ TokensToHtml \/ HtmlToTokens \/ HtmlToTokensLegacy

InitHtml == InitParser("html")

SpecHtml == InitHtml /\ [][NextHtml]_vars

\* C1 compares a token of T with the token that came back: the type, and
\* the text, vfx, scene number and page number that T's token carries
SameToken(t, u) ==
    /\ t.type = u.type
    /\ \A f \in {"text", "vfx", "sceneNum"} \cap DOMAIN t : f \in DOMAIN u /\ u[f] = t[f]
    /\ "pageNum" \in DOMAIN t =>
           /\ "pageNum" \in DOMAIN u
           /\ u.pageNum = (IF t.pageNum = NaN THEN <<"N","a","N">> ELSE NatToStr(t.pageNum))

\* C1: converting the parser's tokens T (with its registry) to the document
\* and the document back yields T: the same token types in the same order
\* with the same text, vfx, scene number and page number.
C1_DocumentRoundTrip ==
    (pc = "converted" /\ pool = "html") =>
        /\ ~back.error
        /\ Len(back.tokens) = Len(tokens)
        /\ \A k \in 1..Len(tokens) : SameToken(tokens[k], back.tokens[k])

(***************************************************************************)
(* Documents as the editor leaves them: paragraphs of one block class      *)
(* whose vfx annotations differ from one paragraph to the next.            *)
(***************************************************************************)
ActionText == <<[kind |-> "text", text |-> <<"H","e"," ","w","a","l","k","s",".">>]>>
DialogueText == <<[kind |-> "text", text |-> <<"H","e","l","l","o"," ","t","h","e","r","e",".">>]>>

ParagraphPool ==
    { Paragraph(<<"action">>, Undefined, Undefined, Undefined, ActionText),
      Paragraph(<<"action", "vfx", "easy">>, Undefined, Undefined, Undefined, ActionText),
      Paragraph(<<"action", "vfx", "mid">>, Undefined, Undefined, Undefined, ActionText),
      Paragraph(<<"action", "vfx", "hard">>, Undefined, <<"3">>, Undefined, ActionText),
      Paragraph(<<"action", "vfx", "easy">>, Undefined, <<"3">>, Undefined, ActionText),
      Paragraph(<<"dialogue", "vfx", "easy">>, Undefined, Undefined, Undefined, DialogueText),
      Paragraph(<<"dialogue", "vfx", "hard">>, Undefined, <<"3">>, Undefined, DialogueText),
      BlankParagraph }

\* longest document edited
MaxParagraphs == 3

(***************************************************************************)
(* Documents of runs: action and dialogue paragraphs with distinct texts,  *)
(* an action paragraph left empty, <p><br></p>, and a character cue.       *)
(***************************************************************************)
TextNode(str) == <<[kind |-> "text", text |-> str]>>

RunPool ==
    { Paragraph(<<"action">>, Undefined, Undefined, Undefined, TextNode(<<"A","1">>)),
      Paragraph(<<"action">>, Undefined, Undefined, Undefined, TextNode(<<"A","2">>)),
      Paragraph(<<"dialogue">>, Undefined, Undefined, Undefined, TextNode(<<"D","1">>)),
      Paragraph(<<"action">>, Undefined, Undefined, Undefined, <<>>),
      Paragraph(<<"character">>, Undefined, Undefined, Undefined, TextNode(<<"J","O">>)),
      BlankParagraph }

\* longest document of runs
MaxRunParagraphs == 4

DocPool(p) == IF p = "runs" THEN RunPool ELSE ParagraphPool

MaxDocOf(p) == IF p = "runs" THEN MaxRunParagraphs ELSE MaxParagraphs

InitDoc ==
    /\ pool = "doc"
    /\ script = <<>>
    /\ pc = "editing"
    /\ pageNum = ParserStart.pageNum
    /\ sceneNum = ParserStart.sceneNum
    /\ tokens = ParserStart.tokens
    /\ entities = ParserStart.entities
    /\ currentBlock = ParserStart.currentBlock
    /\ textBlock = ParserStart.textBlock
    /\ currentVfx = ParserStart.currentVfx
    /\ currentIndent = ParserStart.currentIndent
    /\ FracIdle
    /\ CountIdle
    /\ ConvIdle
    /\ RawIdle
    /\ AsyncIdle
    /\ ExportIdle
    /\ OcrIdle
    /\ EditorIdle
    /\ PassIdle

\* the editor appends a paragraph
EditParagraph ==
    /\ pc = "editing"
    /\ Len(doc) < MaxDocOf(pool)
    /\ \E para \in DocPool(pool) : doc' = Append(doc, para)
    /\ UNCHANGED <<pool, ocrVars, editorVars, pass, script, pc, parserVars, fracVars, countVars, back, rawVars, asyncVars, exportVars>>

NextDoc == EditParagraph \/ HtmlToTokens \/ HtmlToTokensLegacy

SpecDoc == InitDoc /\ [][NextDoc]_vars

\* the annotation of a paragraph: its shot number and level, if any
Annotation(para) ==
    LET has(c) == \E k \in 1..Len(para.classes) : para.classes[k] = c
        levels == SelectSeq(VfxLevels, has)
    IN  IF has("vfx") /\ levels # <<>>
        THEN [shot |-> para.shotNumber, level |-> LevelText(levels[1])]
        ELSE [shot |-> Undefined, level |-> Undefined]

\* the merge rule: a numbered annotation replaces the state, a bare level
\* keeps the state's shot number, no annotation keeps the state
MergeRule(state, ann) ==
    IF ann.level = Undefined THEN state
    ELSE IF Truthy(ann.shot) THEN ann
    ELSE [shot |-> state.shot, level |-> ann.level]

RECURSIVE FoldRule(_, _)
FoldRule(paras, k) ==
    IF k = 0 THEN [shot |-> Undefined, level |-> Undefined]
    ELSE MergeRule(FoldRule(paras, k - 1), Annotation(paras[k]))

VfxString(state) ==
    IF state.level = Undefined THEN Null
    ELSE IF Truthy(state.shot) THEN state.shot \o <<" ">> \o state.level
    ELSE state.level

\* every paragraph of the document has the same block class
OneBlock(paras) ==
    /\ paras # <<>>
    /\ \E c \in {"action", "dialogue"} :
           \A k \in 1..Len(paras) : paras[k].classes # <<>> /\ paras[k].classes[1] = c

\* the single token's vfx is the fold of the rule, leading and trailing
\* blanks aside
FoldHolds ==
    (pc = "converted" /\ OneBlock(doc)) =>
        /\ Len(back.tokens) = 1
        /\ LET v == back.tokens[1].vfx
               w == VfxString(FoldRule(doc, Len(doc)))
           IN  IF v = Null \/ w = Null THEN v = w ELSE Trim(v) = w

\* C6: when consecutive paragraphs of one block class are coalesced into
\* one token, its vfx is the fold of their annotations: a numbered
\* annotation replaces the state, a bare level keeps the shot number and
\* replaces the level, no annotation leaves the state unchanged.
C6_CoalescedVfxFold == FoldHolds

\* the same for the htmlConverter module alone
ConverterFoldHolds == (pc = "converted" /\ ~back.legacy) => FoldHolds

(***************************************************************************)
(* Raw serializer (part_004 tokensToRaw, savescript.js writeTokens) and    *)
(* the parse of its output                                                 *)
(***************************************************************************)
\* token[f] || '' for a field the token may not have
FieldOr(token, f) == IF f \in DOMAIN token /\ Truthy(token[f]) THEN token[f] ELSE <<>>

\* entityList.sort((a, b) => b[1].count - a[1].count): stable, descending
RECURSIVE SortByCount(_)
SortByCount(ents) ==
    IF ents = <<>> THEN <<>>
    ELSE LET i == CHOOSE i \in 1..Len(ents) :
                     /\ \A j \in 1..Len(ents) : ents[j].count <= ents[i].count
                     /\ \A j \in 1..(i - 1) : ents[j].count < ents[i].count
         IN  <<ents[i]>> \o
             SortByCount(SubSeq(ents, 1, i - 1) \o SubSeq(ents, i + 1, Len(ents)))

\* the types of the registry in the order Object.entries(groupedEnts) visits
\* them: first appearance
RECURSIVE EntityTypes(_)
EntityTypes(ents) ==
    IF ents = <<>> THEN <<>>
    ELSE LET rest == EntityTypes(SubSeq(ents, 1, Len(ents) - 1))
             t    == ents[Len(ents)].type
         IN  IF \E k \in 1..Len(rest) : rest[k] = t THEN rest ELSE Append(rest, t)

\* the declaration lines of one type, five names to a line
RECURSIVE DeclarationLines(_, _)
DeclarationLines(type, ents) ==
    IF ents = <<>> THEN <<>>
    ELSE LET n  == IF Len(ents) < 5 THEN Len(ents) ELSE 5
             el == [k \in 1..n |-> ents[k].key]
         IN  <<"[", "[">> \o type \o <<" ", " ">> \o Join(el, <<",", " ">>)
                 \o <<" ", "]", "]">> \o NL
                 \o DeclarationLines(type, SubSeq(ents, n + 1, Len(ents)))

\* the entity declarations written ahead of the tokens when not clean
EntityDeclarations(ents) ==
    LET types == EntityTypes(ents)
        OfType(t) == SelectSeq(ents, LAMBDA e : e.type = t)
        lines == [k \in 1..Len(types) |->
                     DeclarationLines(types[k], SortByCount(OfType(types[k])))]
    IN  Join(lines, <<>>)

\* the vfx annotation appended to a token's lines; part_004 rebuilds it from
\* the first two words when the first is a number
VfxSuffix(token, clean, saveScript) ==
    LET vfx   == FieldOr(token, "vfx")
        parts == Split(vfx, " ")
        body  == IF ~saveScript /\ AllDigits(parts[1])
                 THEN parts[1] \o <<" ">> \o
                      (IF Len(parts) >= 2 THEN parts[2] ELSE <<"u","n","d","e","f","i","n","e","d">>)
                 ELSE vfx
    IN  IF vfx # <<>> /\ ~clean
        THEN <<" ", "[", "[", "v", "f", "x", " ">> \o body \o <<"]", "]">>
        ELSE <<>>

\* regex[e].test(line.replace(regex.annotation, '$1').trim())
CleanLine(line) == Trim(StripAnnotation(line))

\* the switch on token.type: one token rendered as fixed-column text
RenderToken(token, text, textClean, textLines, vfx, saveScript) ==
    CHOOSE r \in UNION {
      { LET ActionLine(k) == PadEnd(IF forced[k] THEN <<"!">> \o lines[k] ELSE lines[k], 80)
                                 \o vfx \o NL
            DialogueLine(k) == Spaces(10) \o PadEnd(lines[k], 70) \o vfx \o NL
        IN  CASE token.type = "action" ->
                     Join([k \in 1..Len(lines) |-> ActionLine(k)], <<>>) \o NL
              [] token.type = "dialogue" ->
                     Join([k \in 1..Len(lines) |-> DialogueLine(k)], <<>>) \o NL
              [] token.type = "character" ->
                     LET char == IF RegexCharacter(textClean).ok THEN text ELSE <<"@">> \o text
                     IN  Spaces(15) \o PadEnd(char, 65) \o vfx \o NL
              [] token.type = "parenthetical" ->
                     Spaces(10) \o PadEnd(text, 70) \o vfx \o NL
              [] token.type = "scene-heading" ->
                     LET heading == IF isHeading THEN text ELSE <<".">> \o text
                         num0    == FieldOr(token, "sceneNum")
                         sceneNumber == IF num0 # <<>> THEN <<"#">> \o num0 \o <<"#">> ELSE <<>>
                     IN  PadEnd(heading, 70) \o PadStart(sceneNumber, 10) \o vfx \o NL \o NL
              [] token.type = "page-break" ->
                     [i \in 1..74 |-> "="] \o <<" ">> \o PadStart(num, 5) \o NL \o NL
              [] token.type \in {"transition", "flashback"} ->
                     PadEnd(text, 80) \o vfx \o NL \o NL
              [] OTHER -> <<>> :
          \* regex['character'] or regex['scene-heading'] matches the cleaned
          \* line: an action line that needs the forcing '!'
          forced \in {[k \in 1..Len(lines) |->
                         \E c \in {CleanLine(lines[k])} :
                             RegexCharacter(c).ok \/ RegexSceneHeading(c).ok]},
          isHeading \in {\E c \in {CleanLine(text)} : RegexSceneHeading(c).ok},
          \* savescript.js reads token.pageNum, a property no token has
          num \in {IF saveScript \/ "pageNum" \notin DOMAIN token THEN <<>>
                   ELSE IF token.pageNum = NaN \/ token.pageNum = 0 THEN <<>>
                   ELSE NatToStr(token.pageNum)} } :
      lines \in {textLines} } : TRUE

\* the body of tokens.forEach: vfx, text and textClean, then the switch
TextOf(token, clean) ==
    CHOOSE r \in
        { [text |-> IF clean THEN textClean ELSE text0, textClean |-> textClean] :
            text0 \in {FieldOr(token, "text")},
            textClean \in {Trim(StripAnnotation(Trim(StripAnnotation(FieldOr(token, "text")))))} } : TRUE

TokenToRaw(token, clean, saveScript) ==
    CHOOSE r \in
        { RenderToken(token, t.text, t.textClean, Split(t.text, "\n"), vfx, saveScript) :
            t \in {TextOf(token, clean)},
            vfx \in {VfxSuffix(token, clean, saveScript)} } : TRUE

\* part_004 tokensToRaw(tokens, entities, clean); with saveScript, the body
\* of savescript.js writeTokens
RawText(ts, ents, clean, saveScript) ==
    (IF clean THEN <<>> ELSE EntityDeclarations(ents))
        \o Join([k \in 1..Len(ts) |-> TokenToRaw(ts[k], clean, saveScript)], <<>>)

tokensToRaw(ts, ents, clean) == RawText(ts, ents, clean, FALSE)

writeTokens(ts, ents, clean) == RawText(ts, ents, clean, TRUE)

\* part_004: tokensToRaw(tokens, entities, options.clean)
TokensToRaw ==
    /\ pc = "done"
    /\ pc' = "raw"
    /\ \E clean \in BOOLEAN :
           raw' = [by |-> "tokensToRaw", clean |-> clean,
                   text |-> tokensToRaw(tokens, entities, clean)]
    /\ UNCHANGED <<pool, ocrVars, editorVars, pass, script, parserVars, fracVars, countVars, convVars, reparsed, asyncVars, exportVars>>

\* savescript.js: writeTokens(tokens, entities, outputPath, clean)
WriteTokens ==
    /\ pc = "done"
    /\ pc' = "raw"
    /\ \E clean \in BOOLEAN :
           raw' = [by |-> "writeTokens", clean |-> clean,
                   text |-> writeTokens(tokens, entities, clean)]
    /\ UNCHANGED <<pool, ocrVars, editorVars, pass, script, parserVars, fracVars, countVars, convVars, reparsed, asyncVars, exportVars>>

\* parseScriptSync(text) of the serialization; '' is rejected (lines 62-65)
ParseRaw ==
    /\ pc = "raw"
    /\ pc' = "reparsed"
    /\ IF raw.text = <<>>
       THEN reparsed' = [error |-> TRUE, tokens |-> <<>>, entities |-> <<>>]
       ELSE \E r \in {parseScriptSync(raw.text)} :
                reparsed' = [error |-> FALSE, tokens |-> r.tokens, entities |-> r.entities]
    /\ UNCHANGED <<pool, ocrVars, editorVars, pass, script, parserVars, fracVars, countVars, convVars, raw, asyncVars, exportVars>>

NextRaw == NextParse \/ TokensToRaw \/ WriteTokens \/ ParseRaw

InitRaw == InitParser("raw")

SpecRaw == InitRaw /\ [][NextRaw]_vars

\* a text field without its padding: the lines trimmed, the empty ones dropped
Unpadded(text) ==
    CHOOSE r \in {SelectSeq([k \in 1..Len(ls) |-> Trim(ls[k])], LAMBDA l : l # <<>>) :
                    ls \in {Split(text, "\n")}} : TRUE

\* two tokens that differ at most in the padding of their text
SamePadded(t, u) ==
    /\ DOMAIN t = DOMAIN u
    /\ \A f \in DOMAIN t :
           IF f = "text" THEN Unpadded(t[f]) = Unpadded(u[f]) ELSE t[f] = u[f]

\* two token sequences that differ at most in the padding of the text fields
SameTokens(ts, us) ==
    /\ Len(ts) = Len(us)
    /\ \A k \in 1..Len(ts) : SamePadded(ts[k], us[k])

\* the round trip of the annotated serialization (clean = false)
RoundTrips == ~reparsed.error /\ SameTokens(reparsed.tokens, tokens)

\* C2: for every token sequence T the parser produces, parsing the raw
\* serialization of T (tokensToRaw or writeTokens, annotations kept) yields T
\* again, up to whitespace padding of the text fields.
C2_RawRoundTrip == (pc = "reparsed" /\ ~raw.clean) => RoundTrips

(***************************************************************************)
(* Properties of the parser loop and of the metrics passes                 *)
(***************************************************************************)
\* the step is one iteration of the loop, on the line it appended to script
LineStep == pc = "parsing" /\ pc' = "parsing" /\ Len(script') = Len(script) + 1

\* the line the step consumed
StepLine == script'[Len(script')]

\* the step appended its line to the open block and emitted nothing
LineAppended ==
    /\ LineStep
    /\ currentBlock \in {"action", "dialogue"}
    /\ currentBlock' = currentBlock
    /\ tokens' = tokens
    /\ Len(textBlock') = Len(textBlock) + 1

\* C14: computing line counts leaves the caller's token list unchanged: no
\* field of any token (in particular its scene number) is modified by the
\* metrics pass.
C14_MetricsLeaveTokens == [][(pc = "done" /\ pc' = "done") => tokens' = tokens]_vars

\* C16: when the input ends while an action or dialogue block is being
\* accumulated the parser flushes it, so no block is open and no accumulated
\* line is withheld when the tokens are returned.
C16_FlushAtEndOfInput == pc = "done" => (currentBlock = "none" /\ textBlock = <<>>)

\* the step reads a line of a dialogue block again after a blank line: the
\* block's last two lines are that line and the blank line
SameLineAfterBlank ==
    /\ LineStep
    /\ currentBlock = "dialogue"
    /\ Len(script) >= 2
    /\ script[Len(script)] = BlankLine
    /\ script[Len(script) - 1] = StepLine
    /\ Len(textBlock) >= 2
    /\ textBlock[Len(textBlock) - 1] = LineInfo[StepLine].line
    /\ ~LineInfo[StepLine].dialogueBreak

\* C17: a blank line does not change the parser's remembered indentation,
\* so a blank line inside a dialogue block followed by a line at the same
\* dialogue indentation does not end the block.
C17_BlankKeepsIndent ==
    /\ [][(LineStep /\ StepLine = BlankLine) => currentIndent' = currentIndent]_vars
    /\ [][SameLineAfterBlank => (currentBlock' = "dialogue" /\ tokens' = tokens)]_vars

\* a vfx string as shot number and level
VfxParts(v) ==
    LET w == IF v = Null THEN <<>> ELSE NonEmpty(Split(v, " "))
    IN  IF w = <<>> THEN [shot |-> Undefined, level |-> Undefined]
        ELSE IF Len(w) >= 2 /\ AllDigits(w[1]) THEN [shot |-> w[1], level |-> w[2]]
        ELSE [shot |-> Undefined, level |-> w[1]]

\* C20: while a block is accumulated, the vfx annotation of each appended
\* line is merged into the block's vfx: a shot-numbered annotation wins over
\* a bare level, and a later bare level keeps the shot number.
C20_BlockVfxMerged ==
    [][LineAppended =>
          currentVfx' = VfxString(MergeRule(VfxParts(currentVfx),
                                            VfxParts(LineInfo[StepLine].vfx)))]_vars

\* a vfx value of the three shapes: none, a configured level, or a numeric
\* shot number, one blank and a configured level
ValidVfx(v) ==
    \/ v \in {Null, Undefined}
    \/ \E k \in 1..Len(VfxLevels) : v = LevelText(VfxLevels[k])
    \/ \E k \in 1..Len(VfxLevels), n \in 1..Len(v) :
           /\ AllDigits(SubSeq(v, 1, n))
           /\ From(v, n + 1) = <<" ">> \o LevelText(VfxLevels[k])

AllValidVfx(ts) == \A k \in 1..Len(ts) : "vfx" \in DOMAIN ts[k] => ValidVfx(ts[k].vfx)

\* C15: every token's vfx value produced by the parser or by the document
\* converter is absent/null, a bare configured difficulty level, or
\* '<shot number> <level>' with a numeric shot number and a configured level.
C15_VfxWellFormed ==
    /\ AllValidVfx(tokens)
    /\ pc = "converted" => AllValidVfx(back.tokens)

\* the same for the htmlConverter module on what the parser hands it
ConverterVfxWellFormed ==
    (pc = "converted" /\ ~back.legacy /\ AllValidVfx(tokens)) => AllValidVfx(back.tokens)

InitBlocks == InitParser("blocks")

SpecBlocks == InitBlocks /\ [][NextParse]_vars

\* the step's line differs from the remembered indentation by more than 3
\* columns (a blank line never does)
IndentJump ==
    ~LineInfo[StepLine].isBlank /\ Abs(currentIndent - LineInfo[StepLine].indent) > 3

\* tokens' is tokens followed by the tokens that close the dialogue block and
\* then by whatever the line itself emits
DialogueClosed(withText) ==
    LET n == Len(tokens)
    IN  IF withText
        THEN /\ Len(tokens') >= n + 2
             /\ SubSeq(tokens', 1, n) = tokens
             /\ tokens'[n + 1] = [type |-> "dialogue", text |-> Join(textBlock, NL) \o NL,
                                  vfx |-> currentVfx]
             /\ tokens'[n + 2].type = "dialogue-end"
        ELSE /\ Len(tokens') >= n + 1
             /\ SubSeq(tokens', 1, n) = tokens
             /\ tokens'[n + 1].type = "dialogue-end"

\* the line was appended to the open block and nothing was emitted
BlockExtended(line) ==
    /\ tokens' = tokens
    /\ currentBlock' = currentBlock
    /\ textBlock' = Append(textBlock, line)

\* the patterns the claim lists, on the line without its annotations
ListedDialogueBreak(a) ==
    \/ a.pageBreak
    \/ a.sceneHeading.ok
    \/ a.transition
    \/ a.flashback
    \/ RegexAction(a.lineClean).ok

ActionBreak(a) ==
    \/ a.trimmed = <<>>
    \/ RegexPageBreak(a.trimmed)
    \/ RegexPageNumber(a.trimmed)
    \/ RegexSceneHeading(a.trimmed).ok
    \/ RegexTransition(a.trimmed)
    \/ RegexFlashback(a.trimmed)

\* the line without a leading forced-action '!'
Unforced(line) == IF Len(line) >= 2 /\ line[1] = "!" THEN Tail(line) ELSE line

\* C19: while an action block is open, the parser closes it (one action
\* token) exactly when the line is blank, matches a break pattern, or is a
\* character cue with a rightward indent jump; otherwise the line is appended
\* with a leading forced-action '!' removed.
C19_ActionClose ==
    [][(LineStep /\ currentBlock = "action") =>
          IF \/ ActionBreak(LineInfo[StepLine])
             \/ /\ LineInfo[StepLine].character.ok
                /\ LineInfo[StepLine].indent - currentIndent > 3
          THEN /\ Len(tokens') >= Len(tokens) + 1
               /\ SubSeq(tokens', 1, Len(tokens)) = tokens
               /\ tokens'[Len(tokens) + 1] =
                      [type |-> "action", text |-> Join(textBlock, NL) \o NL,
                       vfx |-> currentVfx]
          ELSE BlockExtended(Unforced(LineInfo[StepLine].line))]_vars

\* an action block of two lines, the second a forced action, was closed by
\* a cue to its right
C19_Witness ==
    /\ pc = "parsing"
    /\ Len(tokens) = 3
    /\ tokens[1].type = "action"
    /\ tokens[1].text = <<"H","e"," ","w","a","l","k","s",".","\n","B","A","N","G","\n">>
    /\ tokens[2].type = "dialogue-begin"
    /\ tokens[3].type = "character"

(***************************************************************************)
(* parseScript (parser.js:43-59): the parse runs in a setImmediate         *)
(* callback and settles the promise                                        *)
(***************************************************************************)
\* the values a caller may pass: null, undefined, numbers, booleans, an
\* object, and strings given as their lines ('' is the one empty line)
Scripts(p, n) == UNION {[1..k -> PoolLines(p)] : k \in 1..n}

ScriptArgs ==
    {[type |-> "null"], [type |-> "undefined"], [type |-> "object"]}
        \cup {[type |-> "number", value |-> v] : v \in {0, 5}}
        \cup {[type |-> "boolean", value |-> v] : v \in BOOLEAN}
        \cup {[type |-> "string", lines |-> sc] : sc \in Scripts("call", MaxCallLines)}

\* typeof script
TypeOf(arg) == IF arg.type = "null" THEN "object" ELSE arg.type

\* mutant of IsEmptyScript: only null and undefined count as empty, as if
\* the test were "script == null"
IsEmptyScriptNullOnly(arg) == arg.type \in {"null", "undefined"}

\* line 62: !script
IsEmptyScript(arg) ==
    \/ arg.type \in {"null", "undefined"}
    \/ arg.type = "number" /\ arg.value = 0
    \/ arg.type = "boolean" /\ ~arg.value
    \/ arg.type = "string" /\ arg.lines = <<BlankLine>>

\* the loop of parseScriptSync over a script given by its line numbers
RECURSIVE ParseScriptLines(_, _)
ParseScriptLines(sc, k) ==
    IF k = 0 THEN ParserStart
    ELSE CHOOSE r \in {ParseStep(st, LineInfo[sc[k]]) :
                         st \in {ParseScriptLines(sc, k - 1)}} : TRUE

\* parseScript has returned its promise; nothing of parseScriptSync exists
InitParseScript ==
    /\ pool = "call"
    /\ script = <<>>
    /\ pc = "called"
    /\ pageNum = Pending
    /\ sceneNum = Pending
    /\ tokens = Pending
    /\ entities = Pending
    /\ currentBlock = Pending
    /\ textBlock = Pending
    /\ currentVfx = Pending
    /\ currentIndent = Pending
    /\ FracIdle
    /\ CountIdle
    /\ ConvIdle
    /\ RawIdle
    /\ scriptArg \in ScriptArgs
    /\ parsePromise = [state |-> "pending"]
    /\ htmlArg = Pending
    /\ htmlPromise = Pending
    /\ timeout = "none"
    /\ expired = FALSE
    /\ ExportIdle
    /\ OcrIdle
    /\ EditorIdle
    /\ PassIdle

\* the setImmediate callback (lines 47-54): parseScriptSync(script), then
\* resolve, or reject with what it threw
ParseScriptCallback ==
    /\ pc = "called"
    /\ IF IsEmptyScript(scriptArg)
       THEN /\ pc' = "error"
            /\ parsePromise' = [state |-> "rejected", error |-> "Cannot parse empty script"]
            /\ UNCHANGED <<script, parserVars>>
       ELSE IF TypeOf(scriptArg) # "string"
       THEN /\ pc' = "error"
            /\ parsePromise' = [state |-> "rejected",
                                error |-> "Expected string input but got",
                                typeof |-> TypeOf(scriptArg)]
            /\ UNCHANGED <<script, parserVars>>
       ELSE \E st \in {ParseScriptLines(scriptArg.lines, Len(scriptArg.lines))} :
                /\ pc' = "done"
                /\ script' = scriptArg.lines
                /\ SetParserState(st)
                /\ parsePromise' = [state |-> "resolved", tokens |-> st.tokens,
                                    entities |-> st.entities]
    /\ UNCHANGED <<pool, ocrVars, editorVars, pass, fracVars, countVars, convVars, rawVars, exportVars,
                   scriptArg, htmlArg, htmlPromise, timeout, expired>>

NextParseScript == ParseScriptCallback

SpecParseScript == InitParseScript /\ [][NextParseScript]_vars

\* the argument is null, the empty string or not a string
BadScriptArg == scriptArg.type # "string" \/ scriptArg.lines = <<BlankLine>>

\* C12: parseScript called with null, an empty string or a non-string value
\* fails before any token list, entity registry or counter is created: the
\* caller's promise is rejected and carries no tokens.
C12_BadArgumentRejected ==
    (pc # "called" /\ BadScriptArg) =>
        /\ parsePromise.state = "rejected"
        /\ "tokens" \notin DOMAIN parsePromise
        /\ tokens = Pending /\ entities = Pending
        /\ pageNum = Pending /\ sceneNum = Pending

\* the empty string was passed and the callback has run
C12_Witness ==
    /\ pc = "error"
    /\ scriptArg.type = "string"
    /\ parsePromise.state = "rejected"

(***************************************************************************)
(* tokensToHtml (part_006:32-56, parser.js:202-224): a promise, a 30       *)
(* second timer and a setImmediate callback that runs the conversion       *)
(***************************************************************************)
\* the promise is settled
Settled(p) == "state" \in DOMAIN p /\ p.state # "pending"

\* resolve(v) / reject(e): only the first settlement counts
Settle(p, outcome) == IF Settled(p) THEN p ELSE outcome

\* clearTimeout(timeout)
ClearTimeout(t) == IF t = "armed" THEN "cleared" ELSE t

\* tokensToHtml(tokens, entities), called with the parser's tokens or with
\* null: the promise is created, the timer armed, the callback queued
TokensToHtmlCall ==
    /\ pc = "done"
    /\ pc' = "converting"
    /\ \E given \in BOOLEAN :
           htmlArg' = IF given THEN [tokens |-> tokens] ELSE [null |-> TRUE]
    /\ htmlPromise' = [state |-> "pending"]
    /\ timeout' = "armed"
    /\ UNCHANGED <<pool, ocrVars, editorVars, pass, script, parserVars, fracVars, countVars, convVars, rawVars, exportVars,
                   scriptArg, parsePromise, expired>>

\* 30 seconds have passed since the call
Expire ==
    /\ timeout # "none"
    /\ ~expired
    /\ expired' = TRUE
    /\ UNCHANGED <<pool, ocrVars, editorVars, pass, script, pc, parserVars, fracVars, countVars, convVars, rawVars, exportVars,
                   scriptArg, parsePromise, htmlArg, htmlPromise, timeout>>

\* the timer's callback (lines 34-36); a cleared timer never runs it
TimeoutCallback ==
    /\ timeout = "armed"
    /\ expired
    /\ timeout' = "fired"
    /\ htmlPromise' = Settle(htmlPromise, [state |-> "rejected",
                                           error |-> "tokensToHtml timed out after 30 seconds"])
    /\ UNCHANGED <<pool, ocrVars, editorVars, pass, script, pc, parserVars, fracVars, countVars, convVars, rawVars, exportVars,
                   scriptArg, parsePromise, htmlArg, expired>>

\* the setImmediate callback (lines 39-49): the synchronous conversion, which
\* may outlast the 30 seconds, then clearTimeout and resolve; or clearTimeout
\* and reject with what tokensToHtmlSync threw (line 66)
ImmediateCallback ==
    /\ pc = "converting"
    /\ \E long \in BOOLEAN : expired' = (expired \/ long)
    /\ timeout' = ClearTimeout(timeout)
    /\ IF "tokens" \in DOMAIN htmlArg
       THEN \E html \in {tokensToHtmlSync(htmlArg.tokens, entities)} :
                /\ pc' = "html"
                /\ doc' = html
                /\ htmlPromise' = Settle(htmlPromise, [state |-> "resolved", value |-> html])
       ELSE /\ pc' = "failed"
            /\ doc' = doc
            /\ htmlPromise' = Settle(htmlPromise,
                                     [state |-> "rejected",
                                      error |-> "No tokens provided to tokensToHtml"])
    /\ UNCHANGED <<pool, ocrVars, editorVars, pass, script, parserVars, fracVars, countVars, back, rawVars, exportVars,
                   scriptArg, parsePromise, htmlArg>>

NextConvert == NextParse \/ TokensToHtmlCall \/ Expire \/ TimeoutCallback \/ ImmediateCallback

InitConvert == InitParser("convert")

SpecConvert == InitConvert /\ [][NextConvert]_vars

\* a settled promise keeps its outcome
SettlesOnce == [][Settled(htmlPromise) => htmlPromise' = htmlPromise]_vars

\* a result is the complete conversion of all tokens
ResultComplete ==
    (Settled(htmlPromise) /\ htmlPromise.state = "resolved") =>
        htmlPromise.value = tokensToHtmlSync(tokens, entities)

\* once the callback has run the timer is not armed, and a cleared timer
\* stays cleared
TimerCancelled ==
    /\ [](pc \in {"html", "failed"} => timeout \in {"cleared", "fired"})
    /\ [][timeout = "cleared" => timeout' = "cleared"]_vars

\* when the 30 seconds have elapsed by the time the promise settles, it
\* settles with a failure
ExpiryFails ==
    [][(~Settled(htmlPromise) /\ Settled(htmlPromise') /\ expired')
           => htmlPromise'.state = "rejected"]_vars

\* C13: a document conversion settles exactly once, with the complete result
\* or with a failure: if the 30 second bound expires first the caller gets a
\* failure and never a partial result, and when the conversion finishes or
\* fails first the timer is cancelled and no later timeout is delivered.
C13_ConversionSettlesOnce ==
    /\ SettlesOnce
    /\ []ResultComplete
    /\ TimerCancelled
    /\ ExpiryFails

(***************************************************************************)
(* Classification of a line while no block is open                         *)
(***************************************************************************)
InitClassify == InitParser("classify")

SpecClassify == InitClassify /\ [][NextParse]_vars

\* what the step did with its line: the type of the token it emitted, the
\* block it began, or "skipped" when it did neither
StepEffect ==
    IF Len(tokens') = Len(tokens) + 1 /\ currentBlock' = "none"
        THEN tokens'[Len(tokens')].type
    ELSE IF /\ Len(tokens') = Len(tokens) + 2
            /\ tokens'[Len(tokens) + 1].type = "dialogue-begin"
            /\ tokens'[Len(tokens')].type = "character"
            /\ currentBlock' = "dialogue"
        THEN "character"
    ELSE IF tokens' = tokens /\ currentBlock' = "action" /\ Len(textBlock') = 1
        THEN "action"
    ELSE IF tokens' = tokens /\ currentBlock' = "none"
        THEN "skipped"
    ELSE "other"

\* the patterns the cleaned line of the step matches
Matches(class) ==
    LET a == LineInfo[StepLine]
    IN  CASE class = "scene-heading" -> a.sceneHeading.ok
          [] class = "transition"    -> a.transition
          [] class = "flashback"     -> a.flashback
          [] class = "page-break"    -> a.pageBreak
          [] class = "page-number"   -> a.pageNumber
          [] class = "blank"         -> a.isBlank
          [] class = "character"     -> a.character.ok /\ IndentJump
          [] class = "action"        -> TRUE

\* the first class of the order that the line matches
FirstOf(order) == order[CHOOSE k \in 1..Len(order) :
                          Matches(order[k]) /\ \A j \in 1..(k - 1) : ~Matches(order[j])]

\* what a line of the class does
EffectOf(class) == IF class \in {"blank", "page-number"} THEN "skipped" ELSE class

ListedOrder == <<"scene-heading", "transition", "flashback", "page-break",
                 "blank", "character", "action">>

CodeOrder == <<"scene-heading", "transition", "flashback", "page-break",
               "page-number", "blank", "character", "action">>

\* C21 as stated: with no block open, a line gets the first matching class of
\* scene-heading, transition, flashback, page-break, blank, character, and
\* a line matching none of them starts an action block.
C21_PrecedenceAsClaimed ==
    [][(LineStep /\ currentBlock = "none") => StepEffect = EffectOf(FirstOf(ListedOrder))]_vars

\* C21 (amended): with no block open, a line gets the first matching class of
\* scene-heading, transition, flashback, page-break, page-number, blank,
\* character (cue pattern with an indent jump); a page-number or blank line is
\* skipped, and a line matching none of them starts an action block.
C21_Precedence ==
    [][(LineStep /\ currentBlock = "none") => StepEffect = EffectOf(FirstOf(CodeOrder))]_vars

\* an indented scene heading that is also a well-formed cue was taken as a
\* scene heading
C21_Witness ==
    /\ pc = "parsing"
    /\ Len(script) = 1
    /\ LineInfo[script[1]].sceneHeading.ok
    /\ LineInfo[script[1]].character.ok
    /\ LineInfo[script[1]].indent > 3
    /\ Len(tokens) = 1
    /\ tokens[1].type = "scene-heading"

(***************************************************************************)
(* Page numbers                                                            *)
(***************************************************************************)
\* the number of page-break tokens among the first k tokens
PageBreaksIn(ts, k) == Cardinality({j \in 1..k : ts[j].type = "page-break"})

\* the tokens that carry a page number
Paged(ts) == {k \in 1..Len(ts) : "pageNum" \in DOMAIN ts[k]}

PageNumbersCount ==
    pc \in {"parsing", "done"} =>
        /\ pageNum = 1 + PageBreaksIn(tokens, Len(tokens))
        /\ \A k \in Paged(tokens) : tokens[k].pageNum = 1 + PageBreaksIn(tokens, k)
        /\ \A k \in 1..Len(tokens) :
               tokens[k].type \in {"page-break", "scene-heading", "flashback"} => k \in Paged(tokens)
        /\ \A j, k \in Paged(tokens) : j < k => tokens[j].pageNum <= tokens[k].pageNum

PageBreakIncrements ==
    [][LineStep => pageNum' = pageNum + (IF LineInfo[StepLine].pageBreak THEN 1 ELSE 0)]_vars

\* C22: the page number starts at 1 and each page-break line increments it by
\* exactly one; the page-break token carries the incremented value, every
\* scene-heading and flashback token carries 1 plus the number of page-break
\* tokens before it, and page numbers never decrease along the tokens.
C22_PageNumbers == []PageNumbersCount /\ PageBreakIncrements

\* a scene heading and a flashback on the second page
C22_Witness ==
    /\ pc = "done"
    /\ Len(tokens) = 3
    /\ tokens[1].type = "page-break" /\ tokens[1].pageNum = 2
    /\ tokens[2].type = "scene-heading" /\ tokens[2].pageNum = 2
    /\ tokens[3].type = "flashback" /\ tokens[3].pageNum = 2

(***************************************************************************)
(* Scene numbers                                                           *)
(***************************************************************************)
InitScene == InitParser("scene")

SpecScene == InitScene /\ [][NextParse]_vars

\* the '#' pairs of a line that enclose letters and digits only
MarkedNumbers(s) ==
    {SubSeq(s, i + 1, j - 1) :
        <<i, j>> \in {<<i, j>> \in (1..Len(s)) \X (1..Len(s)) :
                        /\ i + 1 < j
                        /\ s[i] = "#" /\ s[j] = "#"
                        /\ \A k \in (i + 1)..(j - 1) : s[k] \in Letter \cup Digit}}

\* the scene number of the last scene heading among the tokens; 0 before the
\* first heading
PreviousSceneNum(ts) ==
    IF \E k \in 1..Len(ts) : ts[k].type = "scene-heading"
    THEN ts[CHOOSE k \in 1..Len(ts) :
                /\ ts[k].type = "scene-heading"
                /\ \A j \in (k + 1)..Len(ts) : ts[j].type # "scene-heading"].sceneNum
    ELSE <<"0">>

\* a scene number incremented by one: the number, when it is one; otherwise
\* its digits incremented, with or without its letters
Incremented(n) ==
    LET digits  == SelectSeq(n, LAMBDA c : c \in Digit)
        letters == SelectSeq(n, LAMBDA c : c \in Letter)
        inc     == NatToStr(DigitsToNat(digits) + 1)
    IN  IF AllDigits(n) THEN {inc} ELSE {inc, letters \o inc, inc \o letters}

\* C23: a scene heading with an explicit #n# marker gets scene number n; a
\* heading without a marker gets the previous heading's scene number
\* incremented by one (1 for the first unnumbered heading of a document).
C23_SceneNumbering ==
    [][(LineStep /\ LineInfo[StepLine].sceneHeading.ok) =>
          /\ Len(tokens') >= 1
          /\ tokens'[Len(tokens')].type = "scene-heading"
          /\ tokens'[Len(tokens')].sceneNum \in
                (IF MarkedNumbers(ScriptLines[StepLine]) # {}
                 THEN MarkedNumbers(ScriptLines[StepLine])
                 ELSE Incremented(PreviousSceneNum(tokens)))]_vars

\* the part of C23 that the parser keeps: marked headings, and unmarked ones
\* that do not end in a number, after a numeric scene number
NumberingOfPlainHeadings ==
    [][(LineStep /\ LineInfo[StepLine].sceneHeading.ok
          /\ AllDigits(PreviousSceneNum(tokens))
          /\ ScriptLines[StepLine][Len(ScriptLines[StepLine])] \notin Digit) =>
          /\ tokens'[Len(tokens')].type = "scene-heading"
          /\ tokens'[Len(tokens')].sceneNum \in
                (IF MarkedNumbers(ScriptLines[StepLine]) # {}
                 THEN MarkedNumbers(ScriptLines[StepLine])
                 ELSE Incremented(PreviousSceneNum(tokens)))]_vars

(***************************************************************************)
(* Entity registration by annotations                                      *)
(***************************************************************************)
InitEntity == InitParser("entity")

SpecEntity == InitEntity /\ [][NextParse]_vars

\* the count and the type of a key; 0 and '' when the key is not registered
CountOf(ents, key) ==
    IF EntityIndex(ents, key) = 0 THEN 0 ELSE ents[EntityIndex(ents, key)].count

EntityTypeOf(ents, key) ==
    IF EntityIndex(ents, key) = 0 THEN <<>> ELSE ents[EntityIndex(ents, key)].type

\* the annotations of the step's line, in the order they are processed:
\* inline ones (inc) and the names of declarations
Annotated == LineInfo[StepLine].calls

\* the registry key of the k-th annotated name
AnnotatedKey(k) == ToUpperCase(Trim(Annotated[k].name))

\* the name of the cue, when the step began a dialogue block
CueOf ==
    IF Len(tokens') > Len(tokens) /\ tokens'[Len(tokens')].type = "character"
    THEN {tokens'[Len(tokens')].character} ELSE {}

\* C24: during parsing an inline annotation **Name**[[type]] registers the
\* entity with that type and increments its count by one; a declarative
\* annotation [[type Name1, Name2]] registers each listed name with that type
\* and leaves its count unchanged (0 for a new entity).
C24_AnnotationCounts ==
    [][LineStep =>
        /\ \A k \in 1..Len(Annotated) : EntityIndex(entities', AnnotatedKey(k)) > 0
        /\ \A key \in EntityKeys(entities') :
              CountOf(entities', key) =
                  CountOf(entities, key)
                  + Cardinality({k \in 1..Len(Annotated) :
                                    Annotated[k].inc /\ AnnotatedKey(k) = key})
                  + (IF key \in CueOf THEN 1 ELSE 0)
        /\ \A k \in 1..Len(Annotated) :
              (/\ \A j \in (k + 1)..Len(Annotated) : AnnotatedKey(j) # AnnotatedKey(k)
               /\ AnnotatedKey(k) \notin CueOf)
                  => EntityTypeOf(entities', AnnotatedKey(k)) = Annotated[k].type]_vars

\* MARY counted once by an inline annotation and then declared a prop, GUN
\* declared and never counted
C24_Witness ==
    /\ pc = "parsing"
    /\ Len(script) >= 2
    /\ ScriptLines[script[Len(script)]] = ScriptLines[9]
    /\ CountOf(entities, <<"M","A","R","Y">>) = 1
    /\ EntityTypeOf(entities, <<"M","A","R","Y">>) = <<"p","r","o","p">>
    /\ EntityIndex(entities, <<"G","U","N">>) > 0
    /\ CountOf(entities, <<"G","U","N">>) = 0

(***************************************************************************)
(* Registry keys                                                           *)
(***************************************************************************)
InitKeys == InitParser("keys")

SpecKeys == InitKeys /\ [][NextParse]_vars

\* every key is the upper-cased, trimmed form of a name
KeysNormalised(ents) ==
    \A i \in 1..Len(ents) : ents[i].key = ToUpperCase(Trim(ents[i].key))

\* C25: every key of the entity registry returned by a parse or convert pass
\* equals the upper-cased, trimmed form of the entity's name, whether the
\* entity came from an inline annotation, a declaration, an inline mark or a
\* character cue (an '@name' cue included).
C25_KeysUpperCased == pc \in {"parsing", "done"} => KeysNormalised(entities)

\* the keys that annotations and declarations create are normalised: the
\* registry without the entries of '@name' cues
AnnotationKeysNormalised ==
    pc \in {"parsing", "done"} =>
        KeysNormalised(SelectSeq(entities, LAMBDA e : e.key # <<"M","a","r","y">>))

(***************************************************************************)
(* Line weights of the line-count pass                                     *)
(***************************************************************************)
InitWeights == InitParser("weights")

SpecWeights == InitWeights /\ [][NextCount]_vars

\* newlines inside a text, those at its ends not counted
EmbeddedNewlines(token) ==
    IF "text" \in DOMAIN token THEN CountCh(Trim(token.text), "\n") ELSE 0

\* the weight of a token
Weight(token) ==
    CASE token.type = "scene-heading" -> 2
      [] token.type \in {"character", "parenthetical"} -> 1 + EmbeddedNewlines(token)
      [] token.type \in {"dialogue", "action", "flashback", "transition"} ->
             2 + EmbeddedNewlines(token)
      [] OTHER -> 0

\* the sum of the weights of the tokens with an index in S
RECURSIVE WeightSum(_, _)
WeightSum(ts, S) ==
    IF S = {} THEN 0
    ELSE CHOOSE r \in {Weight(ts[k]) + WeightSum(ts, S \ {k}) :
                         k \in {CHOOSE k \in S : TRUE}} : TRUE

\* the page a token lies on: the page number of the last page-break before
\* it, 1 before the first
PageOf(ts, k) ==
    IF \E j \in 1..(k - 1) : ts[j].type = "page-break"
    THEN ts[CHOOSE j \in 1..(k - 1) :
                /\ ts[j].type = "page-break"
                /\ \A i \in (j + 1)..(k - 1) : ts[i].type # "page-break"].pageNum
    ELSE 1

\* the scene heading a token lies under (itself, for a heading); 0 before
\* the first heading
HeadingOf(ts, k) ==
    IF \E j \in 1..k : ts[j].type = "scene-heading"
    THEN CHOOSE j \in 1..k :
             /\ ts[j].type = "scene-heading"
             /\ \A i \in (j + 1)..k : ts[i].type # "scene-heading"
    ELSE 0

PageTotal(ts, p) == WeightSum(ts, {k \in 1..Len(ts) : PageOf(ts, k) = p})

SceneTotal(ts, h) == WeightSum(ts, {k \in 1..Len(ts) : HeadingOf(ts, k) = h})

\* the counts r are the weights added up page by page and scene by scene
WeightsAddUp(r) ==
    r # Pending =>
        /\ \A i \in 1..Len(r.pageCounts) :
               r.pageCounts[i].count = PageTotal(tokens, r.pageCounts[i].key)
        /\ \A k \in 1..Len(tokens) :
               PageTotal(tokens, PageOf(tokens, k)) > 0 =>
                   KeyIndex(r.pageCounts, PageOf(tokens, k)) > 0
        /\ \A h \in Headings(tokens) :
               (\A j \in Headings(tokens) : j > h => tokens[j].sceneNum # tokens[h].sceneNum) =>
                   /\ KeyIndex(r.sceneCounts, tokens[h].sceneNum) > 0
                   /\ r.sceneCounts[KeyIndex(r.sceneCounts, tokens[h].sceneNum)].count
                          = SceneTotal(tokens, h)

\* C26: in the line-count pass each token adds a fixed weight to its page and
\* its scene: scene-heading 2; character and parenthetical 1 plus the embedded
\* newlines; dialogue, action, flashback and transition 2 plus the embedded
\* newlines.  A page total that is not 0 is stored under its page when a
\* page-break or the end of the tokens closes the page (a page of total 0 gets
\* no entry); a scene total is stored under its scene when the next
\* scene-heading or the end of the tokens closes the scene.
C26_LineWeights == WeightsAddUp(countsLpp) /\ WeightsAddUp(countsCalc)

\* every page a page-break ends has its total stored
EveryPageStored(r) ==
    r # Pending =>
        \A k \in 1..Len(tokens) :
            tokens[k].type = "page-break" =>
                KeyIndex(r.pageCounts, PageOf(tokens, k)) > 0

\* C26 as stated: the weights add up and every page-break stores the total of
\* the page it ends, a total of 0 included
C26_LineWeightsAsClaimed ==
    /\ C26_LineWeights
    /\ EveryPageStored(countsLpp)
    /\ EveryPageStored(countsCalc)

\* counts of a script with a cue, its dialogue and a page break
C26_Witness ==
    /\ script = <<3, 4, 5>>
    /\ countsCalc # Pending
    /\ \E k \in 1..Len(tokens) : tokens[k].type = "dialogue"
    /\ \E k \in 1..Len(tokens) : tokens[k].type = "page-break"
    /\ Len(countsCalc.pageCounts) = 1
    /\ countsCalc.pageCounts[1].count = 3

(***************************************************************************)
(* The best fraction of the page count                                     *)
(***************************************************************************)
\* a = b for finite numbers
SameNumber(a, b) == a.k = "fin" /\ b.k = "fin" /\ a.n * b.d = b.n * a.d

\* the 'k/d' at the end of a returned string, as <<k, d>>
FractionOf(str) ==
    LET words == Split(str, " ")
        parts == Split(words[Len(words)], "/")
    IN  <<DigitsToNat(parts[1]), DigitsToNat(parts[2])>>

\* the whole part a returned string shows, 0 when it shows none
WholeOf(str) ==
    LET words == Split(str, " ")
    IN  IF Len(words) = 2 THEN DigitsToNat(words[1]) ELSE 0

\* the arguments are a positive line count and at least one line per page
ProperArguments ==
    /\ argLineCount.k = "fin" /\ argLineCount.n > 0
    /\ argLinesPerPage.n >= 1

Distance(a, b) == MathAbs(NSub(a, b))

ClosestFraction(r) ==
    (r # Pending /\ ProperArguments) =>
        LET ratio == MathMax(NDiv(argLineCount, argLinesPerPage), Fin(1, 32))
            whole == MathFloor(ratio)
            rest == NSub(ratio, whole)
            kd == FractionOf(r.str)
            frac == Fin(kd[1], kd[2])
        IN  /\ kd[2] \in {2, 4, 8, 16, 32}
            /\ WholeOf(r.str) = whole.n
            /\ \A d \in {2, 4, 8, 16, 32} : \A k \in 0..d :
                   /\ NLe(Distance(rest, frac), Distance(rest, Fin(k, d)))
                   /\ SameNumber(Distance(rest, frac), Distance(rest, Fin(k, d)))
                          => kd[2] <= d
            /\ SameNumber(r.decimal, NAdd(whole, frac))
            /\ SameNumber(r.lines, NMul(r.decimal, argLinesPerPage))

\* C27: for a finite lineCount > 0 and linesPerPage >= 1, with
\* ratio = max(lineCount/linesPerPage, 1/32), the returned fraction k/d is the
\* closest to the ratio's fractional remainder among all k/d with d in
\* {2,4,8,16,32}, ties going to the smallest denominator; the decimal is the
\* whole part plus k/d and the third result is the decimal times linesPerPage.
C27_ClosestFraction == ClosestFraction(result32) /\ ClosestFraction(resultCalc)

\* 33 lines of 64: the remainder lies midway between 16/32 and 17/32, and both
\* functions have answered 1/2
C27_Witness ==
    /\ argLineCount = Num(33)
    /\ argLinesPerPage = Num(64)
    /\ result32 # Pending
    /\ resultCalc # Pending
    /\ resultCalc.str = <<"1", "/", "2">>
    /\ result32.str = <<"1", "/", "2">>

(***************************************************************************)
(* Export rows (part_004 generateRows, savescript.js writeScriptCsv)        *)
(***************************************************************************)
RECURSIVE Gcd(_, _)
Gcd(a, b) == IF b = 0 THEN a ELSE Gcd(b, a % b)

\* the same number in lowest terms
Lowest(a) ==
    IF a.k # "fin" THEN a
    ELSE CHOOSE r \in {Fin(a.n \div g, a.d \div g) : g \in {Gcd(Abs(a.n), a.d)}} : TRUE

\* text.replace(regex.note, '$1')
StripNote(s) ==
    CHOOSE r \in UNION {
      { ReplaceAll(v, ms, [k \in 1..Len(ms) |-> ms[k].g1], 1) :
          ms \in {MatchAll(NoteAt, v, 1)} } :
      v \in {s} } : TRUE

\* the token's text without annotations and notes, trimmed
TextStripped(token) ==
    IF "text" \in DOMAIN token /\ Truthy(token.text)
    THEN Trim(StripNote(StripAnnotation(token.text)))
    ELSE <<>>

RECURSIVE TrimmedNotes(_)
TrimmedNotes(ms) ==
    IF ms = <<>> THEN <<>>
    ELSE (IF Trim(ms[1].g1) = <<>> THEN <<>> ELSE <<Trim(ms[1].g1)>>)
         \o TrimmedNotes(Tail(ms))

\* the notes of a text, one to a line
extractNotes(token) ==
    IF "text" \in DOMAIN token /\ Truthy(token.text)
    THEN Join(TrimmedNotes(MatchAll(NoteAt, token.text, 1)), <<"\n">>)
    ELSE <<>>

\* savescript.js:281-283: the level and shot number of a token's vfx
VfxInfo(token) ==
    IF ~("vfx" \in DOMAIN token /\ Truthy(token.vfx))
    THEN [level |-> <<>>, shotNum |-> <<>>]
    ELSE LET match == FirstMatch(VfxLevelAt, token.vfx, 1)
         IN  IF match.ok THEN [level |-> LevelText(match.g2), shotNum |-> match.g1]
             ELSE [level |-> token.vfx, shotNum |-> <<>>]

\* extractVfxInfo(token.vfx, vfxRegex): the recognised level of the vfx
\* string and the shot number before it
extractVfxInfo(token) ==
    IF ~("vfx" \in DOMAIN token /\ Truthy(token.vfx))
    THEN [level |-> <<>>, shotNum |-> <<>>]
    ELSE LET match == FirstMatch(VfxLevelAt, token.vfx, 1)
         IN  IF match.ok
             THEN [level |-> LevelText(match.g2),
                   shotNum |-> IF match.g1 = Undefined THEN <<>> ELSE match.g1]
             ELSE [level |-> <<>>, shotNum |-> <<>>]

\* counts[key] as a number: NaN when there is no such key
CountAt(counts, key) ==
    IF KeyIndex(counts, key) > 0 THEN Num(counts[KeyIndex(counts, key)].count) ELSE NaNv

\* a || b for strings
OrElse(a, b) == IF Truthy(a) THEN a ELSE b

\* a ? a + '\n' + b : b
AddLine(a, b) == IF Truthy(a) THEN a \o <<"\n">> \o b ELSE b

\* block.replace(regex.whitespacenewline, ' '): /[\s\n]+/ has no g flag, the
\* first run of white space becomes one blank
ReplaceWhitespace(s) ==
    IF \E i \in 1..Len(s) : s[i] \in Space
    THEN LET i == CHOOSE i \in 1..Len(s) :
                      s[i] \in Space /\ \A j \in 1..(i - 1) : s[j] \notin Space
         IN  SubSeq(s, 1, i - 1) \o <<" ">> \o From(s, RunEnd(s, i, Space))
    ELSE s

ShotsPerPage == {14, 20, 24}

\* part_004:243-256, savescript.js:257-268
StartState ==
    [pageNum |-> 1, sceneNum |-> <<>>, block |-> <<>>, blockLines |-> 0,
     blockNotes |-> <<>>, pageLines |-> 0, pageLinesAccounted |-> Num(0),
     vfxLevel |-> <<>>, vfxShotNum |-> <<>>, sceneDescr |-> <<>>,
     shotCount |-> [spp \in ShotsPerPage |-> Num(0)],
     shotLinesAccounted |-> [spp \in ShotsPerPage |-> Num(0)]]

\* the fractional page count of the implementation
PageFraction(impl, lineCount, linesPerPageArg) ==
    IF impl = "part_004" THEN calculateFractionalPageCount(lineCount, linesPerPageArg)
    ELSE fractionalPageCount32(lineCount, linesPerPageArg)

\* ' ' + length
LengthCell(str) == <<" ">> \o str

\* part_004:349-356, savescript.js:287-293
handlePageBreak(token, st) ==
    [st EXCEPT !.pageLines = 0,
               !.pageLinesAccounted = Num(0),
               !.pageNum = token.pageNum,
               !.shotLinesAccounted = [spp \in ShotsPerPage |-> Num(0)]]

\* part_004:362-400, savescript.js:294-319: the scene's row, and the state
\* after it
handleSceneHeading(impl, counts, token, st) ==
    LET r == PageFraction(impl, CountAt(counts.sceneCounts, token.sceneNum),
                          CountAt(counts.pageCounts, st.pageNum))
        descr == TextStripped(token)
    IN  [state |-> [st EXCEPT !.sceneNum = token.sceneNum,
                              !.sceneDescr = descr,
                              !.block = <<>>,
                              !.blockLines = 2,
                              !.blockNotes = <<>>,
                              !.vfxLevel = <<>>,
                              !.vfxShotNum = <<>>],
         rows |-> << [page |-> st.pageNum, scene |-> token.sceneNum,
                      sceneDescr |-> descr, description |-> <<>>, text |-> <<>>,
                      length |-> LengthCell(r.str), lengthDec |-> Lowest(r.decimal),
                      shotCount14 |-> MathRound(NMul(r.decimal, Num(14))),
                      shotCount20 |-> MathRound(NMul(r.decimal, Num(20))),
                      shotCount24 |-> MathRound(NMul(r.decimal, Num(24))),
                      difficulty |-> <<>>, shotNumber |-> <<>>,
                      notes |-> extractNotes(token)] >>]

\* part_004:406-413, savescript.js:320-324
handleCharacter(token, vfx, st) ==
    [st EXCEPT !.block = TextStripped(token) \o <<":">>,
               !.blockNotes = extractNotes(token),
               !.vfxLevel = vfx.level,
               !.vfxShotNum = vfx.shotNum]

\* part_004:419-426, savescript.js:325-329
handleParenthetical(token, vfx, st) ==
    [st EXCEPT !.block = AddLine(st.block, TextStripped(token)),
               !.blockNotes = extractNotes(token),
               !.vfxLevel = OrElse(st.vfxLevel, vfx.level),
               !.vfxShotNum = OrElse(st.vfxShotNum, vfx.shotNum)]

\* part_004:506-514, savescript.js:368-373
handleFlashbackTransition(token, vfx, st) ==
    [st EXCEPT !.block = AddLine(st.block, TextStripped(token)),
               !.blockLines = @ + 1,
               !.blockNotes = AddLine(st.blockNotes, extractNotes(token)),
               !.vfxLevel = OrElse(st.vfxLevel, vfx.level),
               !.vfxShotNum = OrElse(st.vfxShotNum, vfx.shotNum)]

\* mutant of ShotCountOf: the shots are rounded down
ShotCountOfFloor(spp, pageLines, accounted, pageCount) ==
    MathFloor(NDiv(NMul(Num(spp), NSub(Num(pageLines), accounted)), pageCount))

\* part_004:454-461, savescript.js:337-340: the shots of the block under spp
\* shots per page
ShotCountOf(spp, pageLines, accounted, pageCount) ==
    MathRound(NDiv(NMul(Num(spp), NSub(Num(pageLines), accounted)), pageCount))

\* part_004:459-460, savescript.js:339: the lines the shots stand for, added to the account
ShotLines(spp, count, accounted, pageCount) ==
    Lowest(NAdd(accounted, NMul(NDiv(count, Num(spp)), pageCount)))

\* part_004:443-446, savescript.js:331-334: the lines of the block added to
\* the page
BlockLinesOf(st, block) == st.blockLines + (CountCh(block, "\n") + 1) + 2

\* part_004:432-500, savescript.js:330-367: the state before the reset of
\* lines 495-499, and the block's row if it has one
handleDialogueAction(impl, full, counts, token, vfx, st) ==
    CHOOSE res \in UNION { UNION { {
        LET shots == [spp \in ShotsPerPage |->
                          ShotCountOf(spp, pageLines, st.shotLinesAccounted[spp], pageCount)]
            level == OrElse(st.vfxLevel, vfx.level)
            shotNum == OrElse(st.vfxShotNum, vfx.shotNum)
            notes == AddLine(st.blockNotes, extractNotes(token))
            done == [st EXCEPT
                       !.block = ReplaceWhitespace(block),
                       !.blockLines = BlockLinesOf(st, block),
                       !.blockNotes = notes,
                       !.pageLines = pageLines,
                       !.pageLinesAccounted = Lowest(NAdd(@, r.lines)),
                       !.shotCount = shots,
                       !.shotLinesAccounted =
                           [spp \in ShotsPerPage |->
                               ShotLines(spp, shots[spp], st.shotLinesAccounted[spp],
                                         pageCount)],
                       !.vfxLevel = level,
                       !.vfxShotNum = shotNum]
        IN  [before |-> done,
             state |-> [done EXCEPT !.block = <<>>, !.blockLines = 0, !.blockNotes = <<>>,
                                    !.vfxLevel = <<>>, !.vfxShotNum = <<>>],
             rows |-> IF Truthy(level) \/ full
                      THEN << [page |-> st.pageNum, scene |-> st.sceneNum,
                               sceneDescr |-> <<>>, description |-> st.sceneDescr,
                               text |-> ReplaceWhitespace(block),
                               length |-> LengthCell(r.str),
                               lengthDec |-> Lowest(r.decimal),
                               shotCount14 |-> shots[14], shotCount20 |-> shots[20],
                               shotCount24 |-> shots[24],
                               difficulty |-> level, shotNumber |-> shotNum,
                               notes |-> notes] >>
                      ELSE <<>>]
        : r \in {PageFraction(impl, NSub(Num(pageLines), st.pageLinesAccounted), pageCount)} }
        : pageLines \in {st.pageLines + BlockLinesOf(st, block)} }
        : block \in {AddLine(st.block, TextStripped(token))},
          pageCount \in {CountAt(counts.pageCounts, st.pageNum)} } : TRUE

\* part_004:276-343, savescript.js:280-374: one iteration of the loop over
\* the tokens
processTokenForExport(impl, full, counts, token, st) ==
    LET vfx == IF impl = "part_004" THEN extractVfxInfo(token) ELSE VfxInfo(token)
    IN  CASE token.type = "page-break" ->
                 [state |-> handlePageBreak(token, st), rows |-> <<>>]
          [] token.type = "scene-heading" -> handleSceneHeading(impl, counts, token, st)
          [] token.type = "character" ->
                 [state |-> handleCharacter(token, vfx, st), rows |-> <<>>]
          [] token.type = "parenthetical" ->
                 [state |-> handleParenthetical(token, vfx, st), rows |-> <<>>]
          [] token.type \in {"dialogue", "action"} ->
                 handleDialogueAction(impl, full, counts, token, vfx, st)
          [] token.type \in {"flashback", "transition"} ->
                 [state |-> handleFlashbackTransition(token, vfx, st), rows |-> <<>>]
          [] OTHER -> [state |-> st, rows |-> <<>>]

ToLowerCh(c) ==
    IF c \in Upper THEN LowerSeq[CHOOSE i \in 1..26 : UpperSeq[i] = c] ELSE c

\* String.prototype.toLowerCase
ToLowerCase(s) == [i \in 1..Len(s) |-> ToLowerCh(s[i])]

\* String.prototype.includes
Includes(s, sub) == \E i \in 1..(Len(s) + 1) : At(s, i, sub)

\* part_004:602-606, savescript.js:402: the text the names are looked up in
TextClean(token) ==
    IF "text" \in DOMAIN token /\ Truthy(token.text)
    THEN Trim(StripAnnotation(Trim(StripAnnotation(token.text))))
    ELSE <<>>

\* part_004:608-612: textClean.toLowerCase().includes(ent.toLowerCase())
Mentions(token, key) ==
    \E text \in {ToLowerCase(TextClean(token))} : Includes(text, ToLowerCase(key))

ProfiledTypes == {"character", "dialogue", "parenthetical", "action"}

\* part_004:587-590: the index the scan of a scene stops before; for the
\* last heading "tokens.length - 1", the index of the last token
ProfileEnd(ts, heads, i) == IF i = Len(heads) THEN Len(ts) ELSE heads[i + 1]

\* part_004:592-613: the registry's keys with the number of tokens of the
\* scene that mention each
SceneProfile(ts, ents, from, to) ==
    [e \in 1..Len(ents) |->
        [key |-> ents[e].key,
         count |-> Cardinality({j \in (from + 1)..(to - 1) :
                                   /\ ts[j].type \in ProfiledTypes
                                   /\ Mentions(ts[j], ents[e].key)})]]

\* sceneEnts[key] = profile
SetProfile(m, key, profile) ==
    LET i == KeyIndex(m, key)
    IN  IF i = 0 THEN Append(m, [key |-> key, ents |-> profile])
        ELSE [m EXCEPT ![i].ents = profile]

RECURSIVE ProfileFrom(_, _, _, _, _)
ProfileFrom(ts, ents, heads, i, sceneEnts) ==
    IF i > Len(heads) THEN sceneEnts
    ELSE ProfileFrom(ts, ents, heads, i + 1,
             SetProfile(sceneEnts, ts[heads[i]].sceneNum,
                        SceneProfile(ts, ents, heads[i], ProfileEnd(ts, heads, i))))

\* the indices of the scene headings, in order
RECURSIVE HeadingIndices(_, _)
HeadingIndices(ts, k) ==
    IF k > Len(ts) THEN <<>>
    ELSE (IF ts[k].type = "scene-heading" THEN <<k>> ELSE <<>>) \o HeadingIndices(ts, k + 1)

\* part_004:578-618, savescript.js:386-415
profileScenes(ts, ents) == ProfileFrom(ts, ents, HeadingIndices(ts, 1), 1, <<>>)

Implementations == {"part_004", "savescript.js"}

\* writeScriptCsv(tokens, entities, outputPath, full) on what the parser
\* returned, up to the loop over the tokens: part_004:61 takes the counts of
\* calculateLineCounts, savescript.js:234 those of linesPerPage, which writes
\* the resolved scene numbers into the tokens
WriteScriptCsv ==
    /\ pc = "done"
    /\ exportCall = Pending
    /\ \E impl \in Implementations, full \in BOOLEAN :
         \E r \in {IF impl = "part_004" THEN calculateLineCounts(tokens)
                   ELSE linesPerPage(tokens)} :
           /\ exportCall' = [impl |-> impl, full |-> full,
                             pageCounts |-> r.pageCounts, sceneCounts |-> r.sceneCounts,
                             sceneEnts |-> profileScenes(
                                 IF impl = "part_004" THEN tokens ELSE r.tokens, entities)]
           /\ tokens' = IF impl = "part_004" THEN tokens ELSE r.tokens
    /\ tokenIndex' = 1
    /\ exportState' = StartState
    /\ rows' = <<>>
    /\ pc' = "export"
    /\ UNCHANGED <<pool, ocrVars, editorVars, pass, script, pageNum, sceneNum, entities, currentBlock,
                   textBlock, currentVfx, currentIndent, fracVars, countVars, convVars,
                   rawVars, asyncVars>>

\* the next iteration of "for (const token of tokens)"
ProcessTokenForExport ==
    /\ pc = "export"
    /\ tokenIndex <= Len(tokens)
    /\ \E r \in {processTokenForExport(exportCall.impl, exportCall.full, exportCall,
                                       tokens[tokenIndex], exportState)} :
           /\ exportState' = r.state
           /\ rows' = rows \o r.rows
    /\ tokenIndex' = tokenIndex + 1
    /\ UNCHANGED <<pool, ocrVars, editorVars, pass, script, pc, parserVars, fracVars, countVars, convVars, rawVars,
                   asyncVars, exportCall>>

\* the loop is over: the rows go to the writer
AddRows ==
    /\ pc = "export"
    /\ tokenIndex > Len(tokens)
    /\ pc' = "exported"
    /\ UNCHANGED <<pool, ocrVars, editorVars, pass, script, parserVars, fracVars, countVars, convVars, rawVars,
                   asyncVars, exportVars>>

NextExport == NextParse \/ WriteScriptCsv \/ ProcessTokenForExport \/ AddRows

InitExport == InitParser("export")

SpecExport == InitExport /\ [][NextExport]_vars

InitShots == InitParser("shots")

SpecShots == InitShots /\ [][NextExport]_vars

(***************************************************************************)
(* Lengths of the blocks of a page                                         *)
(***************************************************************************)
\* the loop has just handled a dialogue or action token
AfterBlock ==
    /\ pc \in {"export", "exported"}
    /\ tokenIndex > 1
    /\ tokens[tokenIndex - 1].type \in {"dialogue", "action"}

\* the line total of the current page from the line-count pass
PageLength == CountAt(exportCall.pageCounts, exportState.pageNum)

\* the lines accounted for are within 1/64 of the page's total of the
\* cumulative page lines
AccountedWithinStep ==
    NLe(Distance(Num(exportState.pageLines), exportState.pageLinesAccounted),
        NDiv(PageLength, Num(64)))

\* the cumulative page lines do not exceed the page's total
WithinPage == NLe(Num(exportState.pageLines), PageLength)

\* C28: while rows are generated for a page, after every dialogue/action block
\* the lines accounted for stay within 1/64 of the page's line total of the
\* cumulative page lines, and the cumulative page lines never exceed the
\* page's total from the line-count pass.
C28_PageLengthsConsistent == AfterBlock => (AccountedWithinStep /\ WithinPage)

(***************************************************************************)
(* Shots of the blocks of a page                                           *)
(***************************************************************************)
\* the step handles a dialogue or action token on a page with a positive
\* line total
BlockStep ==
    /\ pc = "export"
    /\ tokenIndex <= Len(tokens)
    /\ tokenIndex' = tokenIndex + 1
    /\ tokens[tokenIndex].type \in {"dialogue", "action"}
    /\ NLt(Num(0), PageLength)

\* the integer c is x rounded, halves upward
RoundsTo(c, x) ==
    /\ c.k = "fin" /\ c.d = 1
    /\ NLe(NSub(c, Fin(1, 2)), x)
    /\ NLt(x, NAdd(c, Fin(1, 2)))

ShotsRounded(s) ==
    /\ RoundsTo(exportState'.shotCount[s],
                NDiv(NMul(Num(s), NSub(Num(exportState'.pageLines),
                                       exportState.shotLinesAccounted[s])),
                     PageLength))
    /\ exportState'.shotCount[s].n >= 0

ShotsAccounted(s) ==
    SameNumber(exportState'.shotLinesAccounted[s],
               NAdd(exportState.shotLinesAccounted[s],
                    NDiv(NMul(exportState'.shotCount[s], PageLength), Num(s))))

\* the shots allocated on the page so far are the accounted lines times s / L
ShotsTrackPage(s) ==
    NLe(Distance(NDiv(NMul(Num(s), exportState'.shotLinesAccounted[s]), PageLength),
                 NDiv(NMul(Num(s), Num(exportState'.pageLines)), PageLength)),
        Fin(1, 2))

\* C29: for each s in {14, 20, 24} and each page with a positive line total L,
\* every block's shot count is round(s * (cumulativePageLines -
\* accountedLines) / L) and is not negative, accountedLines then advances by
\* count * L / s, and after the block the shots allocated so far on the page
\* differ from s * cumulativePageLines / L by at most 1/2.
C29_ShotAllocation ==
    [][BlockStep => \A s \in ShotsPerPage :
                        ShotsRounded(s) /\ ShotsAccounted(s) /\ ShotsTrackPage(s)]_vars

\* the second block of a page has been given its shots
C29_Witness ==
    /\ pc = "export"
    /\ tokenIndex > 2
    /\ tokens[tokenIndex - 1].type = "action"
    /\ \E k \in 1..(tokenIndex - 2) : tokens[k].type = "action"
    /\ \A k \in 1..(tokenIndex - 1) : tokens[k].type # "page-break"
    /\ exportState.shotCount[14].n > 0
    /\ exportState.shotLinesAccounted[14].n > 0

(***************************************************************************)
(* Which tokens get a row                                                  *)
(***************************************************************************)
HasVfx(token) == "vfx" \in DOMAIN token /\ Truthy(token.vfx)

LeadTypes == {"character", "parenthetical", "flashback", "transition"}

\* the dialogue/action token k is due a row: full mode is on, or it has a VFX
\* tag, or one of the character, parenthetical, flashback and transition
\* tokens before it has, with no scene heading and no block that was due a
\* row in between
RECURSIVE RowDue(_, _, _)
RowDue(ts, full, k) ==
    \/ full
    \/ HasVfx(ts[k])
    \/ \E j \in 1..(k - 1) :
           /\ ts[j].type \in LeadTypes
           /\ HasVfx(ts[j])
           /\ \A i \in (j + 1)..(k - 1) :
                  /\ ts[i].type # "scene-heading"
                  /\ ts[i].type \in {"dialogue", "action"} => ~RowDue(ts, full, i)

\* the step handles the token at tokenIndex
ExportStep ==
    /\ pc = "export"
    /\ tokenIndex <= Len(tokens)
    /\ tokenIndex' = tokenIndex + 1

\* the rows the step added
RowsAdded == Len(rows') - Len(rows)

\* C30: row generation emits exactly one row per scene-heading token, and one
\* row per dialogue/action token exactly when full mode is on or the block
\* carries a VFX tag (its own, or one taken over from the character,
\* parenthetical, flashback or transition tokens leading into it since the
\* last emitted block or scene heading); rows appear in token order.
C30_RowPerBlock ==
    [][ExportStep =>
          /\ Len(rows') >= Len(rows)
          /\ SubSeq(rows', 1, Len(rows)) = rows
          /\ RowsAdded = IF tokens[tokenIndex].type = "scene-heading" THEN 1
                         ELSE IF /\ tokens[tokenIndex].type \in {"dialogue", "action"}
                                 /\ RowDue(tokens, exportCall.full, tokenIndex)
                         THEN 1
                         ELSE 0]_vars

(***************************************************************************)
(* The text of a block's row                                               *)
(***************************************************************************)
\* C31: the text of every block row has its embedded newlines collapsed to
\* single spaces: no emitted row text contains a newline character.
C31_NoNewlineInRowText ==
    \A k \in 1..Len(rows) : \A i \in 1..Len(rows[k].text) : rows[k].text[i] # "\n"

(***************************************************************************)
(* The entity profile of a scene                                           *)
(***************************************************************************)
InitProfile == InitParser("profile")

SpecProfile == InitProfile /\ [][NextExport]_vars

\* the tokens after the heading h and before the next heading, the last
\* token of the list included for the final scene
TokensOfScene(h) ==
    {j \in (h + 1)..Len(tokens) :
        \A i \in (h + 1)..j : tokens[i].type # "scene-heading"}

\* the profile stored for the scene of heading h counts, for every name of
\* the registry, the tokens of the scene that mention it
ProfileCountsScene(h) ==
    LET i == KeyIndex(exportCall.sceneEnts, tokens[h].sceneNum)
    IN  /\ i > 0
        /\ \A e \in 1..Len(entities) :
               LET p == exportCall.sceneEnts[i].ents
               IN  /\ KeyIndex(p, entities[e].key) > 0
                   /\ p[KeyIndex(p, entities[e].key)].count =
                          Cardinality({j \in TokensOfScene(h) :
                                          /\ tokens[j].type \in ProfiledTypes
                                          /\ Mentions(tokens[j], entities[e].key)})

\* C32: for every scene the scene-level entity profile counts the names over
\* all character, dialogue, parenthetical and action tokens after the scene's
\* heading and before the next heading, or up to and including the last token
\* of the list for the final scene.
C32_SceneProfile ==
    exportCall # Pending =>
        \A h \in 1..Len(tokens) :
            (/\ tokens[h].type = "scene-heading"
             /\ \A j \in (h + 1)..Len(tokens) :
                    tokens[j].type = "scene-heading" => tokens[j].sceneNum # tokens[h].sceneNum)
                => ProfileCountsScene(h)

(***************************************************************************)
(* Runs of blocks in the document-to-token conversion                      *)
(***************************************************************************)
InitRuns ==
    /\ pool = "runs"
    /\ script = <<>>
    /\ pc = "editing"
    /\ pageNum = ParserStart.pageNum
    /\ sceneNum = ParserStart.sceneNum
    /\ tokens = ParserStart.tokens
    /\ entities = ParserStart.entities
    /\ currentBlock = ParserStart.currentBlock
    /\ textBlock = ParserStart.textBlock
    /\ currentVfx = ParserStart.currentVfx
    /\ currentIndent = ParserStart.currentIndent
    /\ FracIdle
    /\ CountIdle
    /\ ConvIdle
    /\ RawIdle
    /\ AsyncIdle
    /\ ExportIdle
    /\ OcrIdle
    /\ EditorIdle
    /\ PassIdle

SpecRuns == InitRuns /\ [][NextDoc]_vars

\* the block class of a paragraph: action or dialogue, none for an empty block
RunClass(para) ==
    IF ParagraphText(para, FALSE) = <<>> THEN "none"
    ELSE IF \E k \in 1..Len(para.classes) : para.classes[k] = "action" THEN "action"
    ELSE IF \E k \in 1..Len(para.classes) : para.classes[k] = "dialogue" THEN "dialogue"
    ELSE "none"

\* the maximal runs of consecutive blocks of one class among the first k
\* paragraphs, each with its texts joined by newlines
RECURSIVE RunsOf(_, _)
RunsOf(paras, k) ==
    IF k = 0 THEN <<>>
    ELSE CHOOSE r \in
        { IF RunClass(paras[k]) = "none" THEN prev
          ELSE IF k > 1 /\ RunClass(paras[k - 1]) = RunClass(paras[k])
          THEN [prev EXCEPT ![Len(prev)].text = @ \o NL \o ParagraphText(paras[k], FALSE)]
          ELSE Append(prev, [type |-> RunClass(paras[k]),
                             text |-> ParagraphText(paras[k], FALSE)]) :
          prev \in {RunsOf(paras, k - 1)} } : TRUE

\* the action and dialogue tokens of a list, by type and text
BlockTokens(ts) ==
    LET blocks == SelectSeq(ts, LAMBDA t : t.type \in {"action", "dialogue"})
    IN  [k \in 1..Len(blocks) |-> [type |-> blocks[k].type, text |-> blocks[k].text]]

\* C33: the conversion emits one action/dialogue token per maximal run of
\* consecutive blocks of the same class, with the run's texts joined by
\* newlines in document order; a block of another class, an empty block and
\* the end of the document each close the open run.
C33_OneTokenPerRun ==
    (pool = "runs" /\ pc = "converted" /\ ~back.legacy) =>
        BlockTokens(back.tokens) = RunsOf(doc, Len(doc))

(***************************************************************************)
(* The background OCR task of readpdf.js: a pool of worker threads, a      *)
(* queue that runs one task per page, and the array of page texts.         *)
(***************************************************************************)
\* most pages of a pdf
MaxPages == 2

\* concurrentOCRtasks (readpdf.js:19-20): the pool size and the queue's
\* concurrency
PoolSize == 2

\* most worker threads that crash during one run
MaxWorkerErrors == 1

\* the queue's maxRetries option
maxRetries == 2

\* '\n===========\n'
Sentinel == <<"\n", "=", "=", "=", "=", "=", "=", "=", "=", "=", "=", "=", "\n">>

\* the text the OCR finds on a page
PageText(p) == <<"p">> \o NatToStr(p)

\* chunks[pageNum - 1] = pageText on an array that may be shorter
SetChunk(ch, p, text) ==
    [k \in 1..(IF p > Len(ch) THEN p ELSE Len(ch)) |->
        IF k = p THEN text ELSE IF k <= Len(ch) THEN ch[k] ELSE Undefined]

\* chunks.join(sep): a hole or undefined joins as ''
ChunkJoin(ch, sep) ==
    Join([k \in 1..Len(ch) |-> IF ch[k] = Undefined THEN <<>> ELSE ch[k]], sep)

\* the tasks the queue is running
Running == {p \in 1..Len(tasks) : tasks[p].st \in {"waiting", "ocr"}}

\* WorkerPool.initialize: size workers, all available
NewPool(size) ==
    [workers |-> [k \in 1..size |-> k], available |-> [k \in 1..size |-> k],
     waiting |-> <<>>, activeWorkers |-> {}]

\* WorkerPool.releaseWorker: the pool afterwards and the waiting task, if
\* any, that was handed the worker (0 for none)
releaseWorker(wp, worker) ==
    IF wp.waiting # <<>>
    THEN [pool |-> [wp EXCEPT !.waiting = Tail(@),
                              !.activeWorkers = (@ \ {worker}) \cup {worker}],
          handed |-> Head(wp.waiting)]
    ELSE [pool |-> [wp EXCEPT !.activeWorkers = @ \ {worker},
                              !.available = Append(@, worker)],
          handed |-> 0]

\* WorkerPool.handleWorkerError with the replacement worker created
handleWorkerError(wp, worker) ==
    [wp EXCEPT !.activeWorkers = @ \ {worker},
               !.available = Append(SelectSeq(@, LAMBDA w : w # worker), Len(wp.workers) + 1),
               !.workers = Append(@, Len(wp.workers) + 1)]

\* the task of page p after its OCR was rejected: the queue retries it
\* until maxRetries retries have failed
Rejected(task) ==
    [task EXCEPT !.st = IF task.failures < maxRetries THEN "queued" ELSE "failed",
                 !.failures = @ + 1,
                 !.worker = 0]

\* the tasks after task p gave its worker back with the given outcome
AfterRelease(p, outcome, handed, worker) ==
    [q \in 1..Len(tasks) |->
        IF q = p THEN outcome
        ELSE IF q = handed THEN [tasks[q] EXCEPT !.st = "ocr", !.worker = worker]
        ELSE tasks[q]]

OcrUnchanged == UNCHANGED <<pool, script, pc, parserVars, fracVars, countVars, convVars,
                            rawVars, asyncVars, exportVars, editorVars, pass>>

\* backgroundOcrTask up to the start of the page loop
BackgroundOcrTask ==
    /\ ocrPc = "idle"
    /\ ocrPc' = "queueing"
    /\ workerPool' = NewPool(PoolSize)
    /\ UNCHANGED <<totalPages, tasks, dead, chunks, ocrResult>>
    /\ OcrUnchanged

\* queue.push(pageInfo) for the next page; after the last page the task
\* waits for 'drain'
PushPage ==
    /\ ocrPc = "queueing"
    /\ tasks' = Append(tasks, [st |-> "queued", failures |-> 0, worker |-> 0])
    /\ ocrPc' = IF Len(tasks) + 1 = totalPages THEN "draining" ELSE "queueing"
    /\ UNCHANGED <<totalPages, workerPool, dead, chunks, ocrResult>>
    /\ OcrUnchanged

\* the queue starts the task of page p, which acquires a worker and posts
\* the image to it, or waits for one
ProcessTask(p) ==
    /\ ocrPc \in {"queueing", "draining"}
    /\ p \in 1..Len(tasks)
    /\ tasks[p].st = "queued"
    /\ Cardinality(Running) < PoolSize
    /\ IF workerPool.available # <<>>
       THEN LET worker == workerPool.available[Len(workerPool.available)]
            IN  /\ workerPool' = [workerPool EXCEPT
                                    !.available = SubSeq(@, 1, Len(@) - 1),
                                    !.activeWorkers = @ \cup {worker}]
                /\ tasks' = [tasks EXCEPT ![p].st = "ocr", ![p].worker = worker]
       ELSE /\ workerPool' = [workerPool EXCEPT !.waiting = Append(@, p)]
            /\ tasks' = [tasks EXCEPT ![p].st = "waiting"]
    /\ UNCHANGED <<ocrPc, totalPages, dead, chunks, ocrResult>>
    /\ OcrUnchanged

\* the worker of page p answers with the text
OcrSucceeds(p) ==
    /\ p \in 1..Len(tasks)
    /\ tasks[p].st = "ocr"
    /\ tasks[p].worker \notin dead
    /\ chunks' = SetChunk(chunks, p, PageText(p))
    /\ \E r \in {releaseWorker(workerPool, tasks[p].worker)} :
           /\ workerPool' = r.pool
           /\ tasks' = AfterRelease(p, [tasks[p] EXCEPT !.st = "finished", !.worker = 0],
                                    r.handed, tasks[p].worker)
    /\ UNCHANGED <<ocrPc, totalPages, dead, ocrResult>>
    /\ OcrUnchanged

\* the worker of page p answers with success: false
OcrFails(p) ==
    /\ p \in 1..Len(tasks)
    /\ tasks[p].st = "ocr"
    /\ tasks[p].worker \notin dead
    /\ \E r \in {releaseWorker(workerPool, tasks[p].worker)} :
           /\ workerPool' = r.pool
           /\ tasks' = AfterRelease(p, Rejected(tasks[p]), r.handed, tasks[p].worker)
    /\ UNCHANGED <<ocrPc, totalPages, dead, chunks, ocrResult>>
    /\ OcrUnchanged

\* a worker thread raises 'error': the pool's listener replaces it, then
\* the listener of the ocrImage call that is using it rejects and the task
\* releases the worker
WorkerError(worker) ==
    /\ ocrPc \in {"queueing", "draining"}
    /\ worker \in 1..Len(workerPool.workers)
    /\ worker \notin dead
    /\ Cardinality(dead) < MaxWorkerErrors
    /\ dead' = dead \cup {worker}
    /\ \E wp \in {handleWorkerError(workerPool, worker)} :
           IF \E p \in 1..Len(tasks) : tasks[p].st = "ocr" /\ tasks[p].worker = worker
           THEN \E p \in 1..Len(tasks) :
                    /\ tasks[p].st = "ocr" /\ tasks[p].worker = worker
                    /\ \E r \in {releaseWorker(wp, worker)} :
                           /\ workerPool' = r.pool
                           /\ tasks' = AfterRelease(p, Rejected(tasks[p]), r.handed, worker)
           ELSE /\ workerPool' = wp
                /\ tasks' = tasks
    /\ UNCHANGED <<ocrPc, totalPages, chunks, ocrResult>>
    /\ OcrUnchanged

\* 'drain': no task is queued or running; the texts are joined and the
\* pool is cleaned up
Drain ==
    /\ ocrPc = "draining"
    /\ \A p \in 1..Len(tasks) : tasks[p].st \in {"finished", "failed"}
    /\ ocrPc' = "returned"
    /\ ocrResult' = ChunkJoin(chunks, Sentinel)
    /\ workerPool' = [workers |-> <<>>, available |-> <<>>, waiting |-> <<>>,
                      activeWorkers |-> {}]
    /\ UNCHANGED <<totalPages, tasks, dead, chunks>>
    /\ OcrUnchanged

NextOcr ==
    \/ BackgroundOcrTask
    \/ PushPage
    \/ \E p \in 1..MaxPages : ProcessTask(p)
    \/ \E p \in 1..MaxPages : OcrSucceeds(p)
    \/ \E p \in 1..MaxPages : OcrFails(p)
    \/ \E w \in 1..(PoolSize + MaxWorkerErrors) : WorkerError(w)
    \/ Drain

InitOcr ==
    /\ pool = "ocr"
    /\ script = <<>>
    /\ pc = "ocr"
    /\ pageNum = ParserStart.pageNum
    /\ sceneNum = ParserStart.sceneNum
    /\ tokens = ParserStart.tokens
    /\ entities = ParserStart.entities
    /\ currentBlock = ParserStart.currentBlock
    /\ textBlock = ParserStart.textBlock
    /\ currentVfx = ParserStart.currentVfx
    /\ currentIndent = ParserStart.currentIndent
    /\ FracIdle
    /\ CountIdle
    /\ ConvIdle
    /\ RawIdle
    /\ AsyncIdle
    /\ ExportIdle
    /\ ocrPc = "idle"
    /\ totalPages \in 1..MaxPages
    /\ tasks = <<>>
    /\ workerPool = Pending
    /\ dead = {}
    /\ chunks = <<>>
    /\ ocrResult = Pending
    /\ EditorIdle
    /\ PassIdle

SpecOcr == InitOcr /\ [][NextOcr]_vars

\* the texts of all pages in page order, joined by the sentinel line
AllPagesJoined == Join([p \in 1..totalPages |-> PageText(p)], Sentinel)

\* C34: the background OCR task returns the texts of the pages joined by the
\* sentinel line in ascending page order, one segment per page of the pdf,
\* in whatever order the tasks complete and whether or not a page was retried.
C34_PagesInOrder ==
    ocrPc = "returned" => ocrResult = AllPagesJoined

\* the workers that tasks are using
InUse == {tasks[p].worker : p \in {q \in 1..Len(tasks) : tasks[q].st = "ocr"}}

\* no worker that raised an error is available or with a task
ErroredWorkersGone ==
    \A worker \in dead :
        /\ \A k \in 1..Len(workerPool.available) : workerPool.available[k] # worker
        /\ worker \notin InUse

\* each worker that raised an error was replaced by one new worker
ReplacedByOne == Len(workerPool.workers) = PoolSize + Cardinality(dead)

WithinPoolSize ==
    Len(workerPool.available) + Cardinality(workerPool.activeWorkers) <= PoolSize

\* C36: once a worker has raised an error it has left the active and
\* available sets and one new worker has replaced it; under every
\* interleaving of acquire, release and worker errors the errored worker is
\* never available again nor handed to a task, and available plus active
\* workers never exceed the pool size.
C36_ErroredWorkerReplaced ==
    ocrPc \in {"queueing", "draining"} =>
        (ErroredWorkersGone /\ ReplacedByOne /\ WithinPoolSize)

(***************************************************************************)
(* The editor operations of useEditorOperations.js on a document of        *)
(* paragraphs, each with its class list, shot number and scene number.     *)
(***************************************************************************)
\* null as the value of a numeric attribute
JsNull == [k |-> "null"]

EditorParagraph(classes, shotNumber, sceneNumber) ==
    [classes |-> classes, shotNumber |-> shotNumber, sceneNumber |-> sceneNumber]

\* node.attrs.class?.includes('vfx'): no other class name contains 'vfx'
IsVfx(para) == \E k \in 1..Len(para.classes) : para.classes[k] = "vfx"

\* the data-shot-number a paragraph is given (useEditorOperations.js:609)
ShotNumberAttrAll(isVfx, inVfxBlock, shotNumber) ==
    IF isVfx THEN Num(shotNumber) ELSE JsNull

ShotNumberAttr(isVfx, inVfxBlock, shotNumber) ==
    IF isVfx /\ ~inVfxBlock THEN Num(shotNumber) ELSE JsNull

\* the walk of updateVfxShotNumber over the first k paragraphs
RECURSIVE RenumberTo(_, _)
RenumberTo(paras, k) ==
    IF k = 0 THEN [doc |-> paras, shotNumber |-> 1, inVfxBlock |-> FALSE]
    ELSE CHOOSE r \in
        { [doc |-> [st.doc EXCEPT ![k].shotNumber =
                        ShotNumberAttr(IsVfx(paras[k]), st.inVfxBlock, st.shotNumber)],
           shotNumber |-> IF IsVfx(paras[k]) /\ ~st.inVfxBlock
                          THEN st.shotNumber + 1 ELSE st.shotNumber,
           inVfxBlock |-> IsVfx(paras[k])] :
          st \in {RenumberTo(paras, k - 1)} } : TRUE

updateVfxShotNumber(paras) == RenumberTo(paras, Len(paras)).doc

\* setNodeSelection(pos) on paragraph p
NodeSelection(p) == [from |-> p, to |-> p, node |-> TRUE]

EditorUnchanged == UNCHANGED <<pool, script, pc, parserVars, fracVars, countVars, convVars,
                               rawVars, asyncVars, exportVars, ocrVars, pass>>

\* 'Renumber VFX shots'
UpdateVfxShotNumber ==
    /\ editorDoc # <<>>
    /\ editorOp' = "updateVfxShotNumber"
    /\ editorDoc' = updateVfxShotNumber(editorDoc)
    /\ selection' = NodeSelection(Len(editorDoc))
    /\ EditorUnchanged

\* paragraphs as toggleVfx, toggleParagraphClass and an earlier numbering
\* leave them
NumberedPool ==
    { EditorParagraph(c, n, Undefined) :
        c \in {<<"action">>, <<"action", "vfx", "easy">>, <<"dialogue", "vfx", "hard">>, <<>>},
        n \in {JsNull, Num(2)} }

\* longest document renumbered
MaxNumberedParagraphs == 3

DocsOf(paraPool, n) == UNION {[1..k -> paraPool] : k \in 1..n}

InitEditor(p) ==
    /\ pool = p
    /\ script = <<>>
    /\ pc = "editor"
    /\ pageNum = ParserStart.pageNum
    /\ sceneNum = ParserStart.sceneNum
    /\ tokens = ParserStart.tokens
    /\ entities = ParserStart.entities
    /\ currentBlock = ParserStart.currentBlock
    /\ textBlock = ParserStart.textBlock
    /\ currentVfx = ParserStart.currentVfx
    /\ currentIndent = ParserStart.currentIndent
    /\ FracIdle
    /\ CountIdle
    /\ ConvIdle
    /\ RawIdle
    /\ AsyncIdle
    /\ ExportIdle
    /\ OcrIdle
    /\ PassIdle
    /\ editorOp = "none"

InitRenumber ==
    /\ InitEditor("renumber")
    /\ editorDoc \in DocsOf(NumberedPool, MaxNumberedParagraphs)
    /\ \E p \in 1..Len(editorDoc) : selection = [from |-> p, to |-> p, node |-> FALSE]

SpecRenumber == InitRenumber /\ [][UpdateVfxShotNumber]_vars

\* paragraph p has the class vfx
VfxParagraph(p) == \E k \in 1..Len(editorDoc[p].classes) : editorDoc[p].classes[k] = "vfx"

\* paragraph p starts a maximal run of consecutive VFX paragraphs
StartsRun(p) == VfxParagraph(p) /\ (p = 1 \/ ~VfxParagraph(p - 1))

\* C35: after 'Renumber VFX shots' the first paragraph of the k-th maximal
\* run of consecutive VFX paragraphs carries shot number k, and every other
\* paragraph, VFX or not, has a null shot number.
C35_ShotsRenumbered ==
    editorOp = "updateVfxShotNumber" =>
        \A p \in 1..Len(editorDoc) :
            editorDoc[p].shotNumber =
                (IF StartsRun(p) THEN Num(Cardinality({q \in 1..p : StartsRun(q)})) ELSE JsNull)

C35_Witness ==
    /\ editorOp = "updateVfxShotNumber"
    /\ Len(editorDoc) = 3
    /\ VfxParagraph(1) /\ ~VfxParagraph(2) /\ VfxParagraph(3)
    /\ editorDoc[3].shotNumber = Num(2)

(***************************************************************************)
(* The line that closes a block                                            *)
(***************************************************************************)
\* the step closed the open block: only then does it emit tokens
BlockClosed == LineStep /\ currentBlock \in {"dialogue", "action"} /\ tokens' # tokens

\* the tokens that close the block
CloseLen == IF currentBlock = "dialogue" /\ textBlock # <<>> THEN 2 ELSE 1

\* what the step did with its line besides closing the block
EffectAfterClose ==
    LET n == Len(tokens) + CloseLen
    IN  IF Len(tokens') = n + 1 /\ currentBlock' = "none"
            THEN tokens'[n + 1].type
        ELSE IF /\ Len(tokens') = n + 2
                /\ tokens'[n + 1].type = "dialogue-begin"
                /\ tokens'[n + 2].type = "character"
                /\ currentBlock' = "dialogue"
            THEN "character"
        ELSE IF Len(tokens') = n /\ currentBlock' = "action" /\ Len(textBlock') = 1
            THEN "action"
        ELSE IF Len(tokens') = n /\ currentBlock' = "none"
            THEN "skipped"
        ELSE "other"

\* C37: the line that closes an open dialogue or action block is classified
\* in the same step by the rules for a line met with no block open: a scene
\* heading, transition, flashback, page break or character cue that ends a
\* block produces its own token, and a line that falls to the default starts
\* a new action block.
C37_ClosingLineClassified ==
    [][BlockClosed => EffectAfterClose = EffectOf(FirstOf(CodeOrder))]_vars

\* a dialogue closed by a scene heading, which has its own token
C37_Witness ==
    /\ pool = "blocks"
    /\ script = <<3, 4, 1>>
    /\ Len(tokens) = 5
    /\ tokens[4].type = "dialogue-end"
    /\ tokens[5].type = "scene-heading"

(***************************************************************************)
(* The line-count pass of savescript.js token by token, with each turn of  *)
(* the collision loop of lines 77-90 as a step of its own.                 *)
(***************************************************************************)
\* the while condition of line 77
Collides(c) ==
    LET i == KeyIndex(c.sceneCounts, c.sceneNum)
    IN  i # 0 /\ c.sceneCounts[i].count > 0

\* linesPerPage is called on what the parser returned (lines 51-60)
StartPass ==
    /\ pc = "done"
    /\ pass = Pending
    /\ pass' = [c |-> CountTokens(tokens, 0, TRUE), k |-> 0, inLoop |-> FALSE,
                turn |-> 0, returned |-> FALSE]
    /\ UNCHANGED <<pool, script, pc, parserVars, fracVars, countVars, convVars, rawVars,
                   asyncVars, exportVars, ocrVars, editorVars>>

\* the forEach callback on the next token, up to the while loop when the
\* token is a scene heading (lines 62-76) and to its end otherwise
PassToken ==
    /\ pass # Pending
    /\ ~pass.inLoop /\ ~pass.returned
    /\ pass.k < Len(pass.c.tokens)
    /\ \E c \in {pass.c}, k \in {pass.k + 1} :
           IF c.tokens[k].type = "scene-heading"
           THEN pass' = [pass EXCEPT
                           !.c = [c EXCEPT
                                    !.sceneCounts = IF Truthy(c.sceneNum)
                                                    THEN SetKey(@, c.sceneNum, c.sceneCount)
                                                    ELSE @,
                                    !.sceneNum = IF Truthy(c.tokens[k].sceneNum)
                                                 THEN c.tokens[k].sceneNum ELSE @],
                           !.inLoop = TRUE]
           ELSE pass' = [pass EXCEPT !.c = CountToken(c, k, TRUE), !.k = k]
    /\ UNCHANGED <<pool, script, pc, parserVars, fracVars, countVars, convVars, rawVars,
                   asyncVars, exportVars, ocrVars, editorVars>>

\* one turn of the while loop (lines 77-90); turn is the parity of the turns
\* taken, so that a turn is a step even when it leaves the key as it was
LoopTurn ==
    /\ pass # Pending
    /\ pass.inLoop
    /\ Collides(pass.c)
    /\ pass' = [pass EXCEPT !.c.sceneNum = NextSceneNum(@), !.turn = 1 - @]
    /\ UNCHANGED <<pool, script, pc, parserVars, fracVars, countVars, convVars, rawVars,
                   asyncVars, exportVars, ocrVars, editorVars>>

\* the while condition is false: lines 91-94
LoopExit ==
    /\ pass # Pending
    /\ pass.inLoop
    /\ ~Collides(pass.c)
    /\ pass' = [pass EXCEPT !.c.tokens[pass.k + 1].sceneNum = pass.c.sceneNum,
                            !.c.sceneCount = 2,
                            !.c.pageCount = @ + 2,
                            !.k = @ + 1,
                            !.inLoop = FALSE,
                            !.turn = 0]
    /\ UNCHANGED <<pool, script, pc, parserVars, fracVars, countVars, convVars, rawVars,
                   asyncVars, exportVars, ocrVars, editorVars>>

\* after the last token the counts are flushed and returned (lines 104-111)
PassReturn ==
    /\ pass # Pending
    /\ ~pass.inLoop /\ ~pass.returned
    /\ pass.k = Len(pass.c.tokens)
    /\ \E r \in {FlushCounts(pass.c)} :
           /\ countsLpp' = [pageCounts |-> r.pageCounts, sceneCounts |-> r.sceneCounts]
           /\ tokens' = r.tokens
    /\ pass' = [pass EXCEPT !.returned = TRUE]
    /\ UNCHANGED <<pool, script, pc, pageNum, sceneNum, entities, currentBlock, textBlock,
                   currentVfx, currentIndent, fracVars, countsCalc, convVars, rawVars,
                   asyncVars, exportVars, ocrVars, editorVars>>

PassStep == StartPass \/ PassToken \/ LoopTurn \/ LoopExit \/ PassReturn

NextCollide == NextParse \/ StartPass \/ PassToken \/ LoopTurn \/ LoopExit \/ PassReturn

InitCollide == InitParser("collide")

SpecCollide == InitCollide /\ [][NextCollide]_vars

\* the pass, once called, runs on: JavaScript runs the callback to its end
FairSpecCollide == SpecCollide /\ WF_vars(PassStep)

InLoop == pass # Pending /\ pass.inLoop

\* C38: the collision loop of the line-count pass terminates for every token
\* sequence: whatever scene numbers the headings carry, digit-first or
\* letter-first, the loop reaches a key with no recorded count after finitely
\* many turns.
C38_CollisionLoopTerminates == InLoop ~> ~InLoop


(***************************************************************************)
(* toggleVfx and toggleParagraphClass (useEditorOperations.js:477-576).    *)
(* A position is the index of the paragraph it lies in; a text selection   *)
(* from..to covers the paragraphs from..to, a node selection one           *)
(* paragraph.  data-collapsed is not part of the paragraph record.         *)
(***************************************************************************)
\* useEditorOperations.js:284
VFX_TAGS == <<"vfx">> \o VfxLevels

\* VFX_TAGS.includes(cls)
IsVfxTag(cls) == \E k \in 1..Len(VFX_TAGS) : VFX_TAGS[k] = cls

\* classes.includes(cls)
HasClass(classes, cls) == \E k \in 1..Len(classes) : classes[k] = cls

NotVfxTag(cls) == ~IsVfxTag(cls)

\* the update function of toggleVfx (lines 522-525)
toggleVfxKeep(classes, level) ==
    IF HasClass(classes, level) THEN SelectSeq(classes, NotVfxTag)
    ELSE classes \o <<"vfx", level>>

toggleVfx(classes, level) ==
    IF HasClass(classes, level) THEN SelectSeq(classes, NotVfxTag)
    ELSE SelectSeq(classes, NotVfxTag) \o <<"vfx", level>>

\* newClasses of toggleParagraphClass (lines 536-537)
paragraphClasses(classes, className) == <<className>> \o SelectSeq(classes, IsVfxTag)

\* String(x).match(/\d+/)[0]; every scene number written here has a digit
FirstDigits(s) ==
    LET i == CHOOSE j \in 1..Len(s) : s[j] \in Digit /\ \A h \in 1..(j - 1) : s[h] \notin Digit
    IN  SubSeq(s, i, RunEnd(s, i, Digit) - 1)

\* sceneNumberUtils.findNextAvailable (lines 477-490): the paragraphs after
\* startPos are the ones searched
findNextAvailable(paras, startPos, proposedNumber) ==
    IF \E q \in 1..Len(paras) : q > startPos /\ paras[q].sceneNumber = proposedNumber
    THEN FirstDigits(proposedNumber) \o <<"A">>
    ELSE proposedNumber

\* the last scene heading with a number that nodesBetween(0, from) visits
\* (lines 543-549): a text selection starts inside its first paragraph, a
\* node selection in front of its paragraph
prevSceneNumber(paras, sel) ==
    LET last == IF sel.node THEN sel.from - 1 ELSE sel.from
        heads == {q \in 1..last : /\ HasClass(paras[q].classes, "scene-heading")
                                  /\ Truthy(paras[q].sceneNumber)}
    IN  IF heads = {} THEN Null
        ELSE paras[CHOOSE q \in heads : \A h \in heads : h <= q].sceneNumber

\* lines 551-562
nextSceneNumber(paras, sel) ==
    LET prev == prevSceneNumber(paras, sel)
    IN  IF prev = Null THEN findNextAvailable(paras, sel.from, <<"1">>)
        ELSE LET next == findNextAvailable(paras, sel.from,
                                           NatToStr(DigitsToNat(FirstDigits(prev)) + 1))
             IN  IF HasClass(next, "A")
                 THEN findNextAvailable(paras, sel.from, prev \o <<"A">>)
                 ELSE next

\* updateAttributes('paragraph', {...}) on the current selection (lines 564-570)
sceneHeadingAttributes(paras, sel, newClasses) ==
    LET next == nextSceneNumber(paras, sel)
    IN  [q \in 1..Len(paras) |->
            IF sel.from <= q /\ q <= sel.to
            THEN [paras[q] EXCEPT !.classes = newClasses, !.sceneNumber = next]
            ELSE paras[q]]

\* the update function of one operation applied to a class list
NewClasses(op, classes) ==
    IF op.name = "toggleVfx" THEN toggleVfx(classes, op.arg)
    ELSE paragraphClasses(classes, op.arg)

\* updateParagraphClasses (lines 498-510) up to paragraph k: snap is the
\* document the walk reads, sel the selection it started with; the result is
\* the editor's live document and selection
RECURSIVE UpdateTo(_, _, _, _)
UpdateTo(snap, sel, k, op) ==
    IF k < sel.from THEN [doc |-> snap, sel |-> sel]
    ELSE CHOOSE r \in
        { [doc |-> [(IF op.name = "toggleParagraphClass" /\ op.arg = "scene-heading"
                     THEN sceneHeadingAttributes(st.doc, st.sel, NewClasses(op, snap[k].classes))
                     ELSE st.doc)
                    EXCEPT ![k].classes = NewClasses(op, snap[k].classes)],
           sel |-> NodeSelection(k)] :
          st \in {UpdateTo(snap, sel, k - 1, op)} } : TRUE

updateParagraphClasses(snap, sel, op) == UpdateTo(snap, sel, sel.to, op).doc

\* the user selects the paragraphs from..to
SetTextSelection(from, to) ==
    /\ selection # [from |-> from, to |-> to, node |-> FALSE]
    /\ selection' = [from |-> from, to |-> to, node |-> FALSE]
    /\ UNCHANGED <<editorDoc, editorOp>>
    /\ EditorUnchanged

\* the scene numbers followed: plain numbers up to MaxSceneNumber
MaxSceneNumber == 2

ShortSceneNumbers(paras) ==
    \A q \in 1..Len(paras) :
        Truthy(paras[q].sceneNumber) =>
            /\ paras[q].sceneNumber = FirstDigits(paras[q].sceneNumber)
            /\ DigitsToNat(paras[q].sceneNumber) <= MaxSceneNumber

\* toggleVfx(level) (lines 520-527); the selection is set back to from..to
ToggleVfx(level) ==
    /\ ~selection.node
    /\ editorOp' = "toggleVfx"
    /\ editorDoc' = updateParagraphClasses(editorDoc, selection, [name |-> "toggleVfx", arg |-> level])
    /\ UNCHANGED selection
    /\ EditorUnchanged

\* toggleParagraphClass(className) (lines 533-576)
ToggleParagraphClass(className) ==
    /\ ~selection.node
    /\ \E r \in {updateParagraphClasses(editorDoc, selection,
                                        [name |-> "toggleParagraphClass", arg |-> className])} :
          /\ ShortSceneNumbers(r)
          /\ editorDoc' = r
    /\ editorOp' = "toggleParagraphClass"
    /\ UNCHANGED selection
    /\ EditorUnchanged

\* the difficulty levels and formats the toolbar is used with
ToggleLevels == {"easy", "hard"}
ToggleClasses == {"action", "scene-heading"}

MaxToggleParagraphs == 2

\* paragraphs without VFX classes, scene or shot numbers
PlainPool == {EditorParagraph(<<>>, JsNull, Undefined), EditorParagraph(<<"action">>, JsNull, Undefined)}

InitToggle ==
    /\ InitEditor("toggle")
    /\ editorDoc \in DocsOf(PlainPool, MaxToggleParagraphs)
    /\ selection = [from |-> 1, to |-> 1, node |-> FALSE]

NextToggle ==
    \/ \E from \in 1..Len(editorDoc) : \E to \in from..Len(editorDoc) : SetTextSelection(from, to)
    \/ \E level \in ToggleLevels : ToggleVfx(level)
    \/ \E className \in ToggleClasses : ToggleParagraphClass(className)

SpecToggle == InitToggle /\ [][NextToggle]_vars

\* the difficulty levels among a class list
LevelsOf(classes) == {k \in 1..Len(classes) : \E l \in 1..Len(VfxLevels) : classes[k] = VfxLevels[l]}

\* 'vfx' is there exactly when a level is, and there are never two levels
VfxWellFormed(classes) ==
    /\ HasClass(classes, "vfx") <=> LevelsOf(classes) # {}
    /\ Cardinality(LevelsOf(classes)) <= 1

\* C39: after any sequence of toggleVfx and toggleParagraphClass operations on
\* paragraphs that start without VFX classes, every paragraph's class list
\* contains 'vfx' exactly when it contains a difficulty level and never holds
\* two levels, and a toggleVfx step leaves every paragraph's non-VFX classes
\* as they were.
C39_VfxClassesConsistent ==
    /\ [](\A p \in 1..Len(editorDoc) : VfxWellFormed(editorDoc[p].classes))
    /\ [][editorOp' = "toggleVfx" =>
            \A p \in 1..Len(editorDoc) :
                SelectSeq(editorDoc'[p].classes, NotVfxTag) = SelectSeq(editorDoc[p].classes, NotVfxTag)]_vars

\* a level was replaced by another on a scene heading
C39_Witness ==
    /\ pool = "toggle"
    /\ editorOp = "toggleVfx"
    /\ \E p \in 1..Len(editorDoc) : editorDoc[p].classes = <<"scene-heading", "vfx", "hard">>
    /\ \E p \in 1..Len(editorDoc) : editorDoc[p].classes = <<"action", "vfx", "easy">>

====
